---- MODULE Spec2Model ----
(***************************************************************************)
(* Model of the CrossPoint Reader plugin: the EPUB converter               *)
(* (src/crosspoint_reader/converter.py), the upload path and the presence  *)
(* of the device in the driver (driver.py) and the WebSocket functions     *)
(* (ws_client.py).  Each component has its own specification; the          *)
(* variables of the other components stay idle in it.                      *)
(*                                                                         *)
(* Representation.                                                          *)
(*  - An archive entry name is a record [dir, stem, part, ext]: the text    *)
(*    dir ++ stem ++ ("_part" ++ part, when part > 0) ++ ("." ++ ext, when  *)
(*    ext is not empty).  The stems of the name pool are not substrings of  *)
(*    one another, so the basename-level substring operations of the code   *)
(*    (str.replace, the regular expressions) act on whole basenames.        *)
(*  - A text document is the sequence of the image references it holds,     *)
(*    each with the markup form it is written in, since the regular         *)
(*    expressions of the code distinguish these forms.                      *)
(*  - An image is its decodability and its pixel size; a JPEG produced by   *)
(*    the encoder is its size, its crop offset and its quality.             *)
(*  - The code scales a size with int(a * (n / d)) in double arithmetic:    *)
(*    that is the integer quotient a * n / d rounded down, or one less      *)
(*    when the quotient is a whole number that the double product falls     *)
(*    just short of.  ShortProducts lists the products of the second kind   *)
(*    among the sizes drawn here; the overlap is held as a percentage, and  *)
(*    int(max_w * overlap) is exact for every value drawn.                  *)
(***************************************************************************)
EXTENDS Integers, Sequences, FiniteSets, TLC

VARIABLES
    jpeg_quality, \* the jpeg_quality argument the converter was created with
    cfg,          \* the converter's configuration (EpubConverter.__init__)
    src,          \* the source archive: zin.namelist() with each entry's data
    pc,           \* position of convert_epub / of the _process_image driver
    idx,          \* loop index of the pass in progress
    out_path,     \* output_path as resolved by convert_epub
    srcFile,      \* state of the bytes stored at input_path
    zinOpen,      \* the source ZipFile handle is open
    zoutOpen,     \* the destination ZipFile handle is open
    dest,         \* entries written to the destination archive, in order
    renamed,      \* convert_epub: renamed, old name -> new name
    split_images, \* convert_epub: split_images, basename -> tile records
    xhtml_files,  \* convert_epub: xhtml_files, in insertion order
    opf,          \* convert_epub: opf_path / opf_content
    stats,        \* self.stats
    result,       \* what convert_epub handed to its caller
    call          \* the latest _process_image invocation: input and output

\* the variables of the converter (converter.py)
convVars == <<jpeg_quality, cfg, src, pc, idx, out_path, srcFile, zinOpen, zoutOpen, dest,
              renamed, split_images, xhtml_files, opf, stats, result, call>>

\* CrossPointDevice.upload_books and _convert_epub (driver.py)
VARIABLES
    enable_conversion, \* PREFS['enable_conversion']
    files,             \* upload_books: the files argument
    names,             \* upload_books: the names argument
    upc,               \* position of upload_books
    file_i,            \* upload_books: i of enumerate(zip(files, names)), from 1
    filepath,          \* upload_books: filepath of the file in progress
    temp_files,        \* upload_books: temp_files
    paths,             \* upload_books: paths
    tempfs,            \* the files PersistentTemporaryFile made: path -> state
    removals,          \* the paths os.remove was called with, in order
    events,            \* conversions and uploads started or finished, in order
    conv,              \* the latest _convert_epub call: input, outcome, result
    uresult            \* what upload_books handed to its caller

driverVars == <<enable_conversion, files, names, upc, file_i, filepath, temp_files,
                paths, tempfs, removals, events, conv, uresult>>

\* upload_file, delete_file and delete_files with their WebSocketClient, and
\* the device at the other end of the connection (ws_client.py)
VARIABLES
    win32,     \* sys.platform == 'win32'
    op,        \* the function called: upload_file, delete_file or delete_files
    size,      \* upload_file: the chunks f.read(chunk_size) yields in all
    wpc,       \* position of the function
    sock,      \* client.sock: None or the socket object
    conn,      \* the socket of the connection: unopened, open or closed
    net,       \* the connection carries data (up) or was lost (down)
    outbox,    \* frames the client sent, in order
    taken,     \* how many frames of outbox the device has read
    inbox,     \* frames of the device that arrived and were not read yet
    dpc,       \* position of the device
    notes,     \* progress messages the device sent
    to_send,   \* upload_file: chunks not sent yet; delete_files: paths left
    trace,     \* what the client sent, read and drained, in order
    report,    \* delete_files: result, one mark per path
    wresult    \* what the function handed to its caller

wsVars == <<win32, op, size, wpc, sock, conn, net, outbox, taken, inbox, dpc, notes,
            to_send, trace, report, wresult>>

\* the presence of the device as CrossPointDevice holds it (driver.py)
VARIABLES
    is_connected,   \* self.is_connected
    device_host,    \* self.device_host
    device_port,    \* self.device_port
    last_discovery, \* self.last_discovery, in seconds
    now,            \* time.time(), in seconds
    discoveries,    \* the times ws_client.discover_device was called at
    presence        \* the latest call of the plugin interface and its outcome

presenceVars == <<is_connected, device_host, device_port, last_discovery, now,
                  discoveries, presence>>

\* the variables outside the converter
extVars == <<driverVars, wsVars, presenceVars>>

vars == <<extVars, convVars>>

\* upload_books is not running
DriverIdle ==
    /\ enable_conversion = FALSE
    /\ files = <<>>
    /\ names = <<>>
    /\ upc = "off"
    /\ file_i = 0
    /\ filepath = ""
    /\ temp_files = <<>>
    /\ paths = <<>>
    /\ tempfs = <<>>
    /\ removals = <<>>
    /\ events = <<>>
    /\ conv = <<>>
    /\ uresult = <<>>

\* no function of ws_client is running
WsIdle ==
    /\ win32 = FALSE
    /\ op = ""
    /\ size = 0
    /\ wpc = "off"
    /\ sock = "None"
    /\ conn = "unopened"
    /\ net = "up"
    /\ outbox = <<>>
    /\ taken = 0
    /\ inbox = <<>>
    /\ dpc = "off"
    /\ notes = 0
    /\ to_send = 0
    /\ trace = <<>>
    /\ report = <<>>
    /\ wresult = <<>>

\* CrossPointDevice.__init__, with the clock stopped
PresenceIdle ==
    /\ is_connected = FALSE
    /\ device_host = "None"
    /\ device_port = 0
    /\ last_discovery = 0
    /\ now = 0
    /\ discoveries = <<>>
    /\ presence = <<>>

\* every component other than the converter is idle
ExtIdle == DriverIdle /\ WsIdle /\ PresenceIdle

-----------------------------------------------------------------------------
(* Bounds of the model *)

MaxEntries == 3
MaxRefs == 1
MaxDim == 12

-----------------------------------------------------------------------------
(* Entry names *)

Name(d, s, e) == [dir |-> d, stem |-> s, part |-> 0, ext |-> e]

\* str.lower() on the extensions of the pool
Lower(e) ==
    CASE e = "JPG" -> "jpg"
      [] e = "PNG" -> "png"
      [] OTHER -> e

RenameExts == {"png", "gif", "webp", "bmp", "jpeg"}
ImageExts == RenameExts \cup {"jpg"}
ContentExts == {"xhtml", "html", "htm"}

\* os.path.basename
Basename(n) == [stem |-> n.stem, part |-> n.part, ext |-> n.ext]

IsMimetype(n) == n = Name("", "mimetype", "")
IsImage(n) == Lower(n.ext) \in ImageExts
IsContent(n) == Lower(n.ext) \in ContentExts
IsOpf(n) == Lower(n.ext) = "opf"
IsCssNcx(n) == Lower(n.ext) \in {"css", "ncx"}

\* the if/elif chain of the first pass and the skips of the fourth pass
Classify(n) ==
    CASE IsMimetype(n) -> "mimetype"
      [] ~IsMimetype(n) /\ IsImage(n) -> "image"
      [] ~IsMimetype(n) /\ ~IsImage(n) /\ IsContent(n) -> "content"
      [] ~IsMimetype(n) /\ ~IsImage(n) /\ ~IsContent(n) /\ IsOpf(n) -> "opf"
      [] OTHER -> "other"

\* re.sub(r'\.(png|gif|webp|bmp|jpeg)$', '.jpg', name, flags=re.IGNORECASE)
SubRenameExt(n) ==
    IF Lower(n.ext) \in RenameExts THEN [n EXCEPT !.ext = "jpg"] ELSE n

\* re.sub(r'\.[^.]+$', '.jpg', name)
SubAnyExt(n) == IF n.ext # "" THEN [n EXCEPT !.ext = "jpg"] ELSE n

\* the rename map built from zin.namelist()
BuildRenamed(namelist) ==
    [n \in {m \in namelist : Lower(m.ext) \in RenameExts} |-> SubRenameExt(n)]

-----------------------------------------------------------------------------
(* Image transcoding *)

Min(a, b) == IF a <= b THEN a ELSE b
Max(a, b) == IF a >= b THEN a ELSE b

Jpeg(w, h, x, q) == [kind |-> "jpeg", w |-> w, h |-> h, x |-> x, q |-> q]

Raised == [raised |-> TRUE, parts |-> <<>>]
Returned(ps) == [raised |-> FALSE, parts |-> ps]

\* the products a * (n / d) that a double computes just below the whole
\* number a * n / d: 11 * (30 / 22) is 14.999999999999998
ShortProducts == {<<11, 30, 22>>}

\* the product rounded to the nearest integer
IntProductRounded(a, n, d) == ((2 * a * n) + d) \div (2 * d)

\* int(a * (n / d))
IntProduct(a, n, d) ==
    IF <<a, n, d>> \in ShortProducts THEN ((a * n) \div d) - 1
    ELSE (a * n) \div d

_process_normal(c, orig_w, orig_h) ==
    LET fits == orig_w <= c.max_width /\ orig_h <= c.max_height
        \* scale = min(max_width / orig_w, max_height / orig_h)
        byWidth == c.max_width * orig_h <= c.max_height * orig_w
        new_w == IF byWidth THEN IntProduct(orig_w, c.max_width, orig_w)
                 ELSE IntProduct(orig_w, c.max_height, orig_h)
        new_h == IF byWidth THEN IntProduct(orig_h, c.max_width, orig_w)
                 ELSE IntProduct(orig_h, c.max_height, orig_h)
    IN  IF fits
        THEN Returned(<<[data |-> Jpeg(orig_w, orig_h, 0, c.jpeg_quality),
                         suffix |-> 0]>>)
        ELSE IF new_w = 0 \/ new_h = 0
             THEN Raised    \* Image.resize rejects an empty size
             ELSE Returned(<<[data |-> Jpeg(new_w, new_h, 0, c.jpeg_quality),
                              suffix |-> 0]>>)

\* the split with the number of parts rounded down instead of up
SplitRotateFloorParts(c, orig_w, orig_h) ==
    LET scaled_w == c.max_height
        scaled_h == IntProduct(orig_h, c.max_height, orig_w)
        rot_w == scaled_h
        rot_h == scaled_w
        max_w == c.max_width
        overlap_px == (max_w * c.overlap) \div 100
        step == max_w - overlap_px
        num_parts == (rot_w - overlap_px) \div step
        X(i) == Max(0, IF i = num_parts - 1 THEN 0
                       ELSE rot_w - max_w - (i * step))
        part_w(i) == Min(max_w, rot_w - X(i))
    IN  IF scaled_h = 0
        THEN Raised         \* Image.resize rejects an empty size
        ELSE IF rot_w <= c.max_width
        THEN Returned(<<[data |-> Jpeg(rot_w, rot_h, 0, c.jpeg_quality),
                         suffix |-> 0]>>)
        ELSE IF step = 0
        THEN Raised         \* ZeroDivisionError
        ELSE Returned([k \in 1..num_parts |->
                 [data |-> Jpeg(part_w(k - 1), rot_h, X(k - 1), c.jpeg_quality),
                  suffix |-> k]])

\* the split that also cuts an image exactly max_width wide
SplitRotateStrict(c, orig_w, orig_h) ==
    LET scaled_w == c.max_height
        scaled_h == IntProduct(orig_h, c.max_height, orig_w)
        rot_w == scaled_h
        rot_h == scaled_w
        max_w == c.max_width
        overlap_px == (max_w * c.overlap) \div 100
        step == max_w - overlap_px
        num_parts == (rot_w - overlap_px + step - 1) \div step
        X(i) == Max(0, IF i = num_parts - 1 THEN 0
                       ELSE rot_w - max_w - (i * step))
        part_w(i) == Min(max_w, rot_w - X(i))
    IN  IF scaled_h = 0
        THEN Raised         \* Image.resize rejects an empty size
        ELSE IF rot_w < c.max_width
        THEN Returned(<<[data |-> Jpeg(rot_w, rot_h, 0, c.jpeg_quality),
                         suffix |-> 0]>>)
        ELSE IF step = 0
        THEN Raised         \* ZeroDivisionError
        ELSE Returned([k \in 1..num_parts |->
                 [data |-> Jpeg(part_w(k - 1), rot_h, X(k - 1), c.jpeg_quality),
                  suffix |-> k]])

\* the split that moves from tile to tile by max_width, overlap or not
SplitRotateNoOverlap(c, orig_w, orig_h) ==
    LET scaled_w == c.max_height
        scaled_h == IntProduct(orig_h, c.max_height, orig_w)
        rot_w == scaled_h
        rot_h == scaled_w
        max_w == c.max_width
        overlap_px == (max_w * c.overlap) \div 100
        step == max_w - overlap_px
        num_parts == (rot_w - overlap_px + step - 1) \div step
        X(i) == Max(0, IF i = num_parts - 1 THEN 0
                       ELSE rot_w - max_w - (i * max_w))
        part_w(i) == Min(max_w, rot_w - X(i))
    IN  IF scaled_h = 0
        THEN Raised         \* Image.resize rejects an empty size
        ELSE IF rot_w <= c.max_width
        THEN Returned(<<[data |-> Jpeg(rot_w, rot_h, 0, c.jpeg_quality),
                         suffix |-> 0]>>)
        ELSE IF step = 0
        THEN Raised         \* ZeroDivisionError
        ELSE Returned([k \in 1..num_parts |->
                 [data |-> Jpeg(part_w(k - 1), rot_h, X(k - 1), c.jpeg_quality),
                  suffix |-> k]])

\* the split that rotates the image without scaling it to max_height first
SplitRotateUnscaled(c, orig_w, orig_h) ==
    LET rot_w == orig_h
        rot_h == orig_w
        max_w == c.max_width
        overlap_px == (max_w * c.overlap) \div 100
        step == max_w - overlap_px
        num_parts == (rot_w - overlap_px + step - 1) \div step
        X(i) == Max(0, IF i = num_parts - 1 THEN 0
                       ELSE rot_w - max_w - (i * step))
        part_w(i) == Min(max_w, rot_w - X(i))
    IN  IF rot_w <= c.max_width
        THEN Returned(<<[data |-> Jpeg(rot_w, rot_h, 0, c.jpeg_quality),
                         suffix |-> 0]>>)
        ELSE IF step = 0
        THEN Raised         \* ZeroDivisionError
        ELSE Returned([k \in 1..num_parts |->
                 [data |-> Jpeg(part_w(k - 1), rot_h, X(k - 1), c.jpeg_quality),
                  suffix |-> k]])

_process_split_rotate(c, orig_w, orig_h) ==
    LET scaled_w == c.max_height
        scaled_h == IntProduct(orig_h, c.max_height, orig_w)
        rot_w == scaled_h
        rot_h == scaled_w
        max_w == c.max_width
        overlap_px == (max_w * c.overlap) \div 100
        step == max_w - overlap_px
        num_parts == (rot_w - overlap_px + step - 1) \div step
        X(i) == Max(0, IF i = num_parts - 1 THEN 0
                       ELSE rot_w - max_w - (i * step))
        part_w(i) == Min(max_w, rot_w - X(i))
    IN  IF scaled_h = 0
        THEN Raised         \* Image.resize rejects an empty size
        ELSE IF rot_w <= c.max_width
        THEN Returned(<<[data |-> Jpeg(rot_w, rot_h, 0, c.jpeg_quality),
                         suffix |-> 0]>>)
        ELSE IF step = 0
        THEN Raised         \* ZeroDivisionError
        ELSE Returned([k \in 1..num_parts |->
                 [data |-> Jpeg(part_w(k - 1), rot_h, X(k - 1), c.jpeg_quality),
                  suffix |-> k]])

\* the try block taking square images for horizontal ones
ProcessImageTrySquare(c, data) ==
    IF ~data.ok
    THEN Raised             \* Image.open / convert / save raises
    ELSE LET orig_w == data.w
             orig_h == data.h
             is_horizontal == orig_w >= orig_h
             exceeds_screen == orig_w > c.max_width \/ orig_h > c.max_height
             needs_rotation == is_horizontal /\ exceeds_screen
         IN  IF needs_rotation /\ c.enable_split_rotate
             THEN _process_split_rotate(c, orig_w, orig_h)
             ELSE _process_normal(c, orig_w, orig_h)

\* the try block of _process_image
ProcessImageTry(c, data) ==
    IF ~data.ok
    THEN Raised             \* Image.open / convert / save raises
    ELSE LET orig_w == data.w
             orig_h == data.h
             is_horizontal == orig_w > orig_h
             exceeds_screen == orig_w > c.max_width \/ orig_h > c.max_height
             needs_rotation == is_horizontal /\ exceeds_screen
         IN  IF needs_rotation /\ c.enable_split_rotate
             THEN _process_split_rotate(c, orig_w, orig_h)
             ELSE _process_normal(c, orig_w, orig_h)

_process_image_nocatch(c, data) == ProcessImageTry(c, data)

\* the handler returning no part for an image that failed
ProcessImageDropFailed(c, data) ==
    LET r == ProcessImageTry(c, data)
    IN  IF r.raised THEN Returned(<<>>) ELSE r

_process_image(c, data) ==
    LET r == ProcessImageTry(c, data)
    IN  IF r.raised
        THEN Returned(<<[data |-> data, suffix |-> 0]>>)
        ELSE r

-----------------------------------------------------------------------------
(* Text documents: the image references they hold *)

\* Forms a reference is written in:
\*   "img"     <img src="REF"/>                       a bare self-closed tag
\*   "imgopen" <img src="REF">                        a tag that is not self-closed
\*   "block"   <p><span><img src="REF"/></span></p>   a wrapped tag
\*   "nested"  <img src="REF"/>                       one of several tags that
\*                                                   one wrapper holds
\*   "svg"     <svg><image xlink:href="REF"/></svg>   an SVG image
\*   "url"     url(REF)                               a stylesheet reference
ContentForms == {"img", "imgopen", "block", "svg"}

Tok(f, r) == [form |-> f, ref |-> r]

\* the texts _fix_svg_cover takes for the sign of a cover page
CoverMarkers == {"calibre:cover", "name=\"cover\"", "<title>Cover</title>"}

\* a document: the cover marker its text holds ("" when it holds none) and
\* its references
Text(c, t) == [kind |-> "text", cover |-> c, toks |-> t]

\* the reference of an attribute with an empty value: xlink:href=""
NoRef == [stem |-> "", part |-> 0, ext |-> ""]

\* concatenation of a sequence of sequences
RECURSIVE Flatten(_)
Flatten(ss) == IF ss = <<>> THEN <<>> ELSE Head(ss) \o Flatten(Tail(ss))

\* The text of a basename before its extension.  The stems of the pools hold
\* no dot and no "_part", so a basename has one text and a text one basename.
StemText(b) ==
    IF b.part > 0 THEN b.stem \o "_part" \o ToString(b.part) ELSE b.stem

EndsWith(t, s) ==
    Len(s) <= Len(t) /\ SubSeq(t, Len(t) - Len(s) + 1, Len(t)) = s

UpperLetters == "ABCDEFGHIJKLMNOPQRSTUVWXYZ"
LowerLetters == "abcdefghijklmnopqrstuvwxyz"

LowerChar(ch) ==
    IF \E i \in 1..Len(UpperLetters) : SubSeq(UpperLetters, i, i) = ch
    THEN LET i == CHOOSE i \in 1..Len(UpperLetters) :
                      SubSeq(UpperLetters, i, i) = ch
         IN  SubSeq(LowerLetters, i, i)
    ELSE ch

RECURSIVE LowerText(_)
LowerText(t) ==
    IF Len(t) = 0 THEN ""
    ELSE LowerChar(SubSeq(t, 1, 1)) \o LowerText(SubSeq(t, 2, Len(t)))

\* the text of the reference holds the text of the name: with one dot in
\* each, the name is the end of the reference
Contains(ref, nm) ==
    nm.ext # "" /\ ref.ext = nm.ext /\ EndsWith(StemText(ref), StemText(nm))

\* str.replace(old, new) on the text of a reference
ReplaceName(ref, old, new) ==
    IF Contains(ref, old)
    THEN LET t == StemText(ref)
         IN  [stem |-> SubSeq(t, 1, Len(t) - Len(StemText(old))) \o new.stem,
              part |-> new.part, ext |-> new.ext]
    ELSE ref

\* for old, new in renamed.items(): t = t.replace(basename(old), basename(new))
\* (a replaced reference ends in .jpg, which no other key of renamed ends in)
ReplaceRenamed(rn, ref) ==
    IF \E old \in DOMAIN rn : Contains(ref, Basename(old))
    THEN LET old == CHOOSE old \in DOMAIN rn : Contains(ref, Basename(old))
         IN  ReplaceName(ref, Basename(old), Basename(rn[old]))
    ELSE ref

RenameToks(rn, toks) ==
    [i \in 1..Len(toks) |-> [toks[i] EXCEPT !.ref = ReplaceRenamed(rn, @)]]

\* [^"']*(?:NAME) under re.IGNORECASE: the reference ends in the name, in
\* any letter case
MatchCI(ref, nm) ==
    /\ LowerText(ref.ext) = LowerText(nm.ext)
    /\ EndsWith(LowerText(StemText(ref)), LowerText(StemText(nm)))

\* match.group(0).replace(orig_name, imgName).replace(new_name, imgName)
ReplacePart(ref, orig_name, new_name, imgName) ==
    ReplaceName(ReplaceName(ref, orig_name, imgName), new_name, imgName)

\* block_pattern.sub(replace_block, t): a wrapper around one image tag that
\* names the image becomes one wrapper per tile
ApplyBlock(toks, sp) ==
    LET orig_name == sp.orig_name
        new_name == SubRenameExt(orig_name)
        Hit(tk) == tk.form = "block"
                   /\ (MatchCI(tk.ref, orig_name) \/ MatchCI(tk.ref, new_name))
        Expand(tk) ==
            IF Hit(tk)
            THEN [k \in 1..Len(sp.parts) |->
                    [tk EXCEPT !.ref = ReplacePart(@, orig_name, new_name,
                                                   sp.parts[k].imgName)]]
            ELSE <<tk>>
    IN  Flatten([i \in 1..Len(toks) |-> Expand(toks[i])])

\* simple_pattern.sub(replace_simple, t): every self-closed image tag that
\* names the image, inside a wrapper or not, becomes one tag per tile
ApplySimple(toks, sp) ==
    LET orig_name == sp.orig_name
        new_name == SubRenameExt(orig_name)
        Hit(tk) == tk.form \in {"img", "block", "nested"}
                   /\ (MatchCI(tk.ref, orig_name) \/ MatchCI(tk.ref, new_name))
        Expand(tk) ==
            IF Hit(tk)
            THEN [k \in 1..Len(sp.parts) |->
                    [form |-> IF tk.form = "img" THEN "img" ELSE "nested",
                     ref |-> ReplacePart(tk.ref, orig_name, new_name,
                                         sp.parts[k].imgName)]]
            ELSE <<tk>>
    IN  Flatten([i \in 1..Len(toks) |-> Expand(toks[i])])

\* block_pattern.sub(replace_block, t) then simple_pattern.sub(replace_simple, t)
\* for one entry of split_images
ApplySplit(toks, sp) == ApplySimple(ApplyBlock(toks, sp), sp)

RECURSIVE ApplySplits(_, _)
ApplySplits(toks, sps) ==
    IF sps = <<>> THEN toks
    ELSE ApplySplits(ApplySplit(toks, Head(sps)), Tail(sps))

\* the rewrite without the test for a cover marker
FixSvgCoverUnmarked(content) ==
    LET svgs == {i \in 1..Len(content.toks) : content.toks[i].form = "svg"}
        match == {i \in svgs : content.toks[i].ref # NoRef}
        first == CHOOSE i \in match : \A j \in match : i <= j
    IN  IF svgs = {} THEN [content |-> content, fixed |-> FALSE]
        ELSE IF match = {} THEN [content |-> content, fixed |-> FALSE]
        ELSE [content |-> Text("<title>Cover</title>",
                               <<Tok("img", content.toks[first].ref)>>),
              fixed |-> TRUE]

_fix_svg_cover(content) ==
    LET svgs == {i \in 1..Len(content.toks) : content.toks[i].form = "svg"}
        \* re.search(r'xlink:href=["\']([^"\']+)["\']'): the first one with a value
        match == {i \in svgs : content.toks[i].ref # NoRef}
        first == CHOOSE i \in match : \A j \in match : i <= j
    IN  IF svgs = {} THEN [content |-> content, fixed |-> FALSE]
        ELSE IF content.cover \notin CoverMarkers
        THEN [content |-> content, fixed |-> FALSE]
        ELSE IF match = {} THEN [content |-> content, fixed |-> FALSE]
        ELSE [content |-> Text("<title>Cover</title>",
                               <<Tok("img", content.toks[first].ref)>>),
              fixed |-> TRUE]

\* the body of the second pass for one content document
RewriteContent(content, rn, sps) ==
    LET fixed_svg == _fix_svg_cover(content)
        t == IF fixed_svg.fixed THEN fixed_svg.content ELSE content
    IN  [content |-> [t EXCEPT !.toks = ApplySplits(RenameToks(rn, @), sps)],
         fixed |-> fixed_svg.fixed]

\* the css / ncx branch of the fourth pass
RewriteStyle(content, rn) == [content EXCEPT !.toks = RenameToks(rn, @)]

-----------------------------------------------------------------------------
(* The package document *)

\* An id or a metadata value: the text p ++ s ++ ("_part" ++ n, when n > 0)
Id(s) == [p |-> "", s |-> s, n |-> 0]

ContainsCover(s) == s \in {"cover"}
HasSlash(v) == v.p \in {"images/"}

\* a manifest item: its attributes, their order in the tag and the quote
\* character around their values
QuotedItem(i, h, m, pr, o, q) ==
    [id |-> i, href |-> h, mt |-> m, props |-> pr, order |-> o, quote |-> q]

Item(i, h, m, pr, o) == QuotedItem(i, h, m, pr, o, "\"")

\* position of an attribute in the tag of an item (0: absent)
Pos(it, a) ==
    IF \E k \in 1..Len(it.order) : it.order[k] = a
    THEN CHOOSE k \in 1..Len(it.order) : it.order[k] = a
    ELSE 0

Before(it, a, b) == Pos(it, a) > 0 /\ Pos(it, b) > 0 /\ Pos(it, a) < Pos(it, b)

IsImageMt(m) == m \in {"image/png", "image/gif", "image/webp", "image/bmp",
                       "image/jpeg"}

\* the two re.sub calls that fix the media types
FixMediaType(it) ==
    IF it.href.ext = "jpg"
       /\ it.quote = "\""
       /\ it.mt \in {"image/png", "image/gif", "image/webp", "image/bmp"}
       /\ (Before(it, "href", "mt") \/ Before(it, "mt", "href"))
    THEN [it EXCEPT !.mt = "image/jpeg"]
    ELSE it

\* pattern.sub(... orig_base + '_part1.jpg' ...) for one entry of split_images
\* (an href that ends in orig_base and an image extension, in any letter
\* case; what stands before orig_base is kept)
SplitHref(it, sp) ==
    LET orig_base == sp.orig_name.stem
        t == StemText(it.href)
    IN  IF EndsWith(LowerText(t), LowerText(orig_base))
           /\ LowerText(it.href.ext) \in ImageExts
        THEN [it EXCEPT !.href =
                 [stem |-> SubSeq(t, 1, Len(t) - Len(orig_base)) \o orig_base,
                  part |-> 1, ext |-> "jpg"]]
        ELSE it

\* manifest_additions for one entry of split_images
ManifestAdditions(sp) ==
    [j \in 1..(Len(sp.parts) - 1) |->
        Item(sp.parts[j + 1].id, sp.parts[j + 1].imgName, "image/jpeg", FALSE,
             <<"id", "href", "mt">>)]

RECURSIVE OpfSplits(_, _)
OpfSplits(t, sps) ==
    IF sps = <<>> THEN t
    ELSE LET sp == Head(sps)
             its == [i \in 1..Len(t.items) |-> SplitHref(t.items[i], sp)]
             add == ManifestAdditions(sp)
         IN  OpfSplits([t EXCEPT !.items =
                           IF add # <<>> /\ t.closeManifest
                           THEN its \o add ELSE its],
                       Tail(sps))

\* a cover meta tag: its content value, the order of its two attributes
\* ("nc": name first, "cn": content first) and the text that closes the tag
Meta(v, o, c) == [value |-> v, order |-> o, close |-> c]

\* the patterns of _ensure_cover_meta, in priority order
\* (they spell the attributes with double quotes)
CoverPattern(k, it) ==
    /\ it.quote = "\""
    /\ CASE k = 1 -> it.props /\ Before(it, "id", "props")
         [] k = 2 -> it.props /\ Before(it, "props", "id")
         [] k = 3 -> ContainsCover(it.href.stem) /\ IsImageMt(it.mt)
                     /\ Before(it, "id", "href") /\ Before(it, "href", "mt")
         [] k = 4 -> ContainsCover(it.href.stem) /\ IsImageMt(it.mt)
                     /\ Before(it, "href", "id") /\ Before(it, "id", "mt")
         [] k = 5 -> ContainsCover(it.id.s) /\ IsImageMt(it.mt)
                     /\ Before(it, "id", "mt")
         [] k = 6 -> ContainsCover(it.id.s) /\ IsImageMt(it.mt)
                     /\ Before(it, "mt", "id")

_ensure_cover_meta(content) ==
    LET hits(k) == {i \in 1..Len(content.items) :
                       CoverPattern(k, content.items[i])}
        ks == {k \in 1..6 : hits(k) # {}}
        k0 == CHOOSE k \in ks : \A j \in ks : k <= j
        i0 == CHOOSE i \in hits(k0) : \A j \in hits(k0) : i <= j
        cover_id == content.items[i0].id
        nc == {i \in 1..Len(content.meta) : content.meta[i].order = "nc"}
        cn == {i \in 1..Len(content.meta) : content.meta[i].order = "cn"}
        m0 == IF nc # {} THEN CHOOSE i \in nc : \A j \in nc : i <= j
              ELSE CHOOSE i \in cn : \A j \in cn : i <= j
        current_value == content.meta[m0].value
    IN  IF ks = {} THEN [content |-> content, fixed |-> FALSE]
        ELSE IF content.meta # <<>>
        THEN IF HasSlash(current_value) \/ current_value # cover_id
             THEN [content |-> [content EXCEPT !.meta =
                                   [i \in 1..Len(content.meta) |->
                                       Meta(cover_id, "nc", " />")]],
                   fixed |-> TRUE]
             ELSE [content |-> content, fixed |-> FALSE]
        ELSE [content |-> [content EXCEPT !.meta =
                              IF content.closeMetadata
                              THEN <<Meta(cover_id, "nc", "/>")>>
                              ELSE <<>>],
              fixed |-> TRUE]

\* the body of the third pass
RewriteOpf(content, rn, sps) ==
    LET t1 == [content EXCEPT !.items =
                  [i \in 1..Len(@) |->
                      [@[i] EXCEPT !.href = ReplaceRenamed(rn, @)]]]
        t2 == [t1 EXCEPT !.items = [i \in 1..Len(@) |-> FixMediaType(@[i])]]
        t3 == OpfSplits(t2, sps)
        fixed_cover == _ensure_cover_meta(t3)
    IN  IF fixed_cover.fixed THEN fixed_cover.content ELSE t3

-----------------------------------------------------------------------------
(* Inputs: configurations, images and source archives *)

\* the constructor without the clamp of the requested quality
InitUnclamped(q, mw, mh, sr, ov) ==
    [jpeg_quality |-> q, max_width |-> mw, max_height |-> mh,
     enable_split_rotate |-> sr, overlap |-> ov]

\* EpubConverter.__init__: the attributes of a new converter
__init__(q, mw, mh, sr, ov) ==
    [jpeg_quality |-> Max(1, Min(95, q)), max_width |-> mw, max_height |-> mh,
     enable_split_rotate |-> sr, overlap |-> ov]

\* the default of the jpeg_quality argument
DefaultQuality == 85

Config(mw, mh, ov, sr) == __init__(DefaultQuality, mw, mh, sr, ov)

\* overlap is a percentage here: the code holds the fraction overlap / 100
Configs == {Config(4, 10, 25, sr) : sr \in BOOLEAN}

Image(ok, w, h) == [kind |-> "img", ok |-> ok, w |-> w, h |-> h]

\* an undecodable image, and a wide oversized one: three tiles in light novel
\* mode, one scaled image otherwise
ImagePool == {Image(FALSE, 1, 1), Image(TRUE, 10, 8)}

Raw(v) == [kind |-> "raw", v |-> v]

MimetypeName == Name("", "mimetype", "")

\* the names an archive draws from, in the order a packager writes them
NamePool ==
    <<MimetypeName,
      Name("", "p", "opf"), Name("", "q", "opf"),
      Name("", "c", "xhtml"),
      Name("", "s", "css"),
      Name("", "n", "txt"),
      Name("i/", "cover", "png"), Name("i/", "cover", "jpg"),
      Name("i/", "b", "JPG")>>

\* sequences of at most n references to the images of the archive
TokSeqs(forms, refs, n) ==
    UNION {[1..k -> {Tok(f, r) : f \in forms, r \in refs}] : k \in 0..n}

HasSvg(toks) == \E i \in 1..Len(toks) : toks[i].form = "svg"

ContentPool(refs) ==
    {Text(c, t) : c \in {"", "<title>Cover</title>"},
                  t \in TokSeqs(ContentForms, refs, MaxRefs)}
    \ {Text("<title>Cover</title>", t) :
          t \in {u \in TokSeqs(ContentForms, refs, MaxRefs) : ~HasSvg(u)}}

StylePool(refs) == {Text("", t) : t \in TokSeqs({"url"}, refs, MaxRefs)}

MediaTypeOf(e) ==
    CASE Lower(e) = "png" -> "image/png"
      [] Lower(e) = "gif" -> "image/gif"
      [] OTHER -> "image/jpeg"

Opf(items, meta) ==
    [kind |-> "opf", blank |-> FALSE, items |-> items, closeManifest |-> TRUE,
     meta |-> meta, closeMetadata |-> TRUE]

\* a zero-length package document
BlankOpf ==
    [kind |-> "opf", blank |-> TRUE, items |-> <<>>, closeManifest |-> FALSE,
     meta |-> <<>>, closeMetadata |-> FALSE]

\* one manifest item per image of the archive, in archive order
ItemsOf(imgs, o) ==
    [i \in 1..Len(imgs) |->
        Item(Id(imgs[i].stem), Basename(imgs[i]), MediaTypeOf(imgs[i].ext),
             FALSE, o)]

OpfPool(imgs) ==
    {Opf(ItemsOf(imgs, <<"id", "href", "mt">>), <<>>),
     Opf(ItemsOf(imgs, <<"href", "mt", "id">>),
         <<Meta(Id("cover"), "nc", "/>")>>),
     Opf(ItemsOf(imgs, <<"id", "href", "mt">>),
         <<Meta([p |-> "images/", s |-> "cover.jpg", n |-> 0], "cn", "/>")>>),
     BlankOpf}

\* the subsequence of the image names of a sequence of names
RECURSIVE ImageNames(_)
ImageNames(ns) ==
    IF ns = <<>> THEN <<>>
    ELSE IF Classify(Head(ns)) = "image"
         THEN <<Head(ns)>> \o ImageNames(Tail(ns))
         ELSE ImageNames(Tail(ns))

DataPool(n, imgs) ==
    LET refs == {Basename(imgs[i]) : i \in 1..Len(imgs)}
    IN  CASE Classify(n) = "mimetype" -> {Raw("application/epub+zip")}
          [] Classify(n) = "image" -> ImagePool
          [] Classify(n) = "content" -> ContentPool(refs)
          [] Classify(n) = "opf" -> OpfPool(imgs)
          [] OTHER -> IF IsCssNcx(n) THEN StylePool(refs) ELSE {Raw("bytes")}

Entry(n, d) == [name |-> n, data |-> d]

\* the archives with the names ns, in that order, every reference of a
\* document naming an image of the archive
RECURSIVE Fill(_, _, _)
Fill(ns, k, imgs) ==
    IF k = 0 THEN {<<>>}
    ELSE {Append(a, Entry(ns[k], d)) :
             a \in Fill(ns, k - 1, imgs), d \in DataPool(ns[k], imgs)}

\* the names of the pool at the positions S, in pool order or reversed
RECURSIVE Pick(_, _)
Pick(S, k) ==
    IF k > Len(NamePool) THEN <<>>
    ELSE IF k \in S THEN <<NamePool[k]>> \o Pick(S, k + 1)
         ELSE Pick(S, k + 1)

Reverse(s) == [i \in 1..Len(s) |-> s[Len(s) + 1 - i]]

NameSeqs ==
    LET Sets == {S \in SUBSET (1..Len(NamePool)) :
                    Cardinality(S) \in 1..MaxEntries}
    IN  {Pick(S, 1) : S \in Sets} \cup {Reverse(Pick(S, 1)) : S \in Sets}

Archives == UNION {Fill(ns, Len(ns), ImageNames(ns)) : ns \in NameSeqs}

-----------------------------------------------------------------------------
(* convert_epub *)

ZeroStats == [images_converted |-> 0, svg_covers_fixed |-> 0, images_split |-> 0]

NoResult == [status |-> "none", value |-> ""]
NoCall == [made |-> FALSE, data |-> Image(FALSE, 1, 1), out |-> Raised]

Names == {src[i].name : i \in 1..Len(src)}

\* an entry of the destination archive; from and pass record which source
\* entry and which pass of convert_epub wrote it
Written(n, d, c, f, p) ==
    [name |-> n, data |-> d, compress |-> c, from |-> f, pass |-> p]

\* line 109: zout.writestr('mimetype', ..., compress_type=zipfile.ZIP_STORED)
MimetypeEntryDeflated(k) ==
    Written(MimetypeName, src[k].data, "ZIP_DEFLATED", k, "mimetype")

MimetypeEntry(k) ==
    Written(MimetypeName, src[k].data, "ZIP_STORED", k, "mimetype")

\* lines 148-150: the counters of a split image with n tiles
SplitStatsAllTiles(st, n) ==
    [st EXCEPT !.images_converted = @ + n, !.images_split = @ + n]

SplitStats(st, n) ==
    [st EXCEPT !.images_converted = @ + n, !.images_split = @ + n - 1]

Init ==
    /\ ExtIdle
    /\ jpeg_quality = DefaultQuality
    /\ cfg \in Configs
    /\ src \in Archives
    /\ pc = "idle"
    /\ idx = 0
    /\ out_path = ""
    /\ srcFile = "intact"
    /\ zinOpen = FALSE
    /\ zoutOpen = FALSE
    /\ dest = <<>>
    /\ renamed = [n \in {} |-> n]
    /\ split_images = <<>>
    /\ xhtml_files = <<>>
    /\ opf = <<>>
    /\ stats = ZeroStats
    /\ result = NoResult
    /\ call = NoCall

\* an exception leaves both with blocks: the handles are closed on the way out
RaiseSwallowed(exc) ==
    /\ pc' = "done"
    /\ result' = [status |-> "returned", value |-> out_path]
    /\ zinOpen' = FALSE
    /\ zoutOpen' = FALSE

RaiseLeaking(exc) ==
    /\ pc' = "raised"
    /\ result' = [status |-> "raised", value |-> exc]
    /\ zinOpen' = zinOpen
    /\ zoutOpen' = FALSE

Raise(exc) ==
    /\ pc' = "raised"
    /\ result' = [status |-> "raised", value |-> exc]
    /\ zinOpen' = FALSE
    /\ zoutOpen' = FALSE

\* zin.read on a source file that the destination archive has truncated
CanRead == srcFile = "intact"

\* lines 73-103: resolve output_path, reset the statistics, open the source,
\* build the rename map
OpenSource ==
    /\ pc = "idle"
    /\ \E output_path \in {"None", "out", "in"} :
          out_path' = IF output_path = "None" THEN "in_baseline"
                      ELSE output_path
    /\ stats' = ZeroStats
    /\ renamed' = BuildRenamed(Names)
    /\ split_images' = <<>>
    /\ xhtml_files' = <<>>
    /\ opf' = <<>>
    /\ zinOpen' = TRUE
    /\ pc' = "opened"
    /\ UNCHANGED <<extVars, jpeg_quality, cfg, src, idx, srcFile, zoutOpen, dest, result, call>>

\* os.path.getsize(input_path) raises while the statistics are being rebuilt
\* (they keep their old value), or zipfile.ZipFile(input_path, 'r') raises
OpenSourceFails ==
    /\ pc = "idle"
    /\ \E exc \in {"OSError", "BadZipFile"} :
          /\ Raise(exc)
          /\ stats' = IF exc = "BadZipFile" THEN ZeroStats ELSE stats
    /\ \E output_path \in {"None", "out", "in"} :
          out_path' = IF output_path = "None" THEN "in_baseline"
                      ELSE output_path
    /\ UNCHANGED <<extVars, jpeg_quality, cfg, src, idx, srcFile, dest, renamed, split_images,
                   xhtml_files, opf, call>>

\* zipfile.ZipFile(output_path, 'w') raises
OpenDestFails ==
    /\ pc = "opened"
    /\ Raise("OSError")
    /\ UNCHANGED <<extVars, jpeg_quality, cfg, src, idx, out_path, srcFile, dest, renamed,
                   split_images, xhtml_files, opf, stats, call>>

\* lines 105-109: create the destination (truncating the file at its path),
\* then copy the mimetype entry
OpenDest ==
    /\ pc = "opened"
    /\ srcFile' = IF out_path = "in" THEN "truncated" ELSE srcFile
    /\ IF MimetypeName \in Names
       THEN IF out_path = "in"
            THEN /\ Raise("BadZipFile")
                 /\ UNCHANGED <<idx, dest>>
            ELSE LET k == CHOOSE i \in 1..Len(src) : src[i].name = MimetypeName
                 IN  /\ dest' = <<MimetypeEntry(k)>>
                     /\ pc' = "pass1"
                     /\ idx' = 1
                     /\ zoutOpen' = TRUE
                     /\ UNCHANGED <<zinOpen, result>>
       ELSE /\ pc' = "pass1"
            /\ idx' = 1
            /\ zoutOpen' = TRUE
            /\ UNCHANGED <<zinOpen, result, dest>>
    /\ UNCHANGED <<extVars, jpeg_quality, cfg, src, out_path, renamed, split_images, xhtml_files,
                   opf, stats, call>>

\* zin.read or zout.writestr raises in the middle of a pass
IOFailure ==
    /\ pc \in {"pass1", "pass2", "pass3", "pass4"}
    /\ Raise("OSError")
    /\ UNCHANGED <<extVars, jpeg_quality, cfg, src, idx, out_path, srcFile, dest, renamed,
                   split_images, xhtml_files, opf, stats, call>>

\* a read of the truncated source raises
ReadFailure ==
    /\ Raise("BadZipFile")
    /\ UNCHANGED <<extVars, jpeg_quality, cfg, src, idx, out_path, srcFile, dest, renamed,
                   split_images, xhtml_files, opf, stats, call>>

\* the record stored with its tiles last to first
SetSplitReversed(sps, orig_name, recs) ==
    IF \E i \in 1..Len(sps) : sps[i].orig_name = orig_name
    THEN [i \in 1..Len(sps) |->
            IF sps[i].orig_name = orig_name
            THEN [orig_name |-> orig_name, parts |-> Reverse(recs)]
            ELSE sps[i]]
    ELSE Append(sps, [orig_name |-> orig_name, parts |-> Reverse(recs)])

\* split_images[orig_name] = [...]: a dict keeps the position of an existing key
SetSplit(sps, orig_name, recs) ==
    IF \E i \in 1..Len(sps) : sps[i].orig_name = orig_name
    THEN [i \in 1..Len(sps) |->
            IF sps[i].orig_name = orig_name
            THEN [orig_name |-> orig_name, parts |-> recs] ELSE sps[i]]
    ELSE Append(sps, [orig_name |-> orig_name, parts |-> recs])

\* lines 117-150: one image of the first pass
FirstPassImage ==
    /\ pc = "pass1" /\ idx <= Len(src)
    /\ Classify(src[idx].name) = "image"
    /\ IF ~CanRead THEN ReadFailure
       ELSE
       LET name == src[idx].name
           data == src[idx].data
           r == _process_image(cfg, data)
           parts == r.parts
           part_name(k) == [stem |-> name.stem, part |-> parts[k].suffix,
                            ext |-> "jpg"]
           part_path(k) == [dir |-> name.dir, stem |-> name.stem,
                            part |-> parts[k].suffix, ext |-> "jpg"]
       IN  /\ call' = [made |-> TRUE, data |-> data, out |-> r]
           /\ IF r.raised
              THEN /\ Raise("Exception")
                   /\ UNCHANGED <<idx, dest, split_images, stats>>
              ELSE /\ idx' = idx + 1
                   /\ UNCHANGED <<pc, result, zinOpen, zoutOpen>>
                   /\ IF Len(parts) = 1 /\ parts[1].suffix = 0
                      THEN LET new_path == IF name \in DOMAIN renamed
                                           THEN renamed[name]
                                           ELSE SubAnyExt(name)
                           IN  /\ dest' = Append(dest,
                                     Written(new_path, parts[1].data,
                                             "ZIP_DEFLATED", idx, "image"))
                               /\ stats' = [stats EXCEPT
                                               !.images_converted = @ + 1]
                               /\ UNCHANGED split_images
                      ELSE /\ dest' = dest \o
                                  [k \in 1..Len(parts) |->
                                      Written(part_path(k), parts[k].data,
                                              "ZIP_DEFLATED", idx, "image")]
                           /\ split_images' =
                                  SetSplit(split_images, Basename(name),
                                      [k \in 1..Len(parts) |->
                                          [path |-> part_path(k),
                                           imgName |-> part_name(k),
                                           id |-> [p |-> "img-",
                                                   s |-> name.stem,
                                                   n |-> parts[k].suffix]]])
                           /\ stats' = SplitStats(stats, Len(parts))
           /\ UNCHANGED <<extVars, jpeg_quality, cfg, src, out_path, srcFile, renamed, xhtml_files,
                          opf>>

\* lines 152-153: buffer a content document
FirstPassContentEager ==
    /\ pc = "pass1" /\ idx <= Len(src)
    /\ Classify(src[idx].name) = "content"
    /\ IF ~CanRead THEN ReadFailure
       ELSE /\ dest' = Append(dest,
                          Written(src[idx].name,
                                  RewriteContent(src[idx].data, renamed,
                                                 split_images).content,
                                  "ZIP_DEFLATED", idx, "content"))
            /\ idx' = idx + 1
            /\ UNCHANGED <<extVars, jpeg_quality, cfg, src, pc, out_path, srcFile, zinOpen, zoutOpen,
                           renamed, split_images, xhtml_files, opf, stats,
                           result, call>>

FirstPassContent ==
    /\ pc = "pass1" /\ idx <= Len(src)
    /\ Classify(src[idx].name) = "content"
    /\ IF ~CanRead THEN ReadFailure
       ELSE /\ xhtml_files' = Append(xhtml_files,
                                 [path |-> src[idx].name,
                                  content |-> src[idx].data, from |-> idx])
            /\ idx' = idx + 1
            /\ UNCHANGED <<extVars, jpeg_quality, cfg, src, pc, out_path, srcFile, zinOpen, zoutOpen,
                           dest, renamed, split_images, opf, stats, result,
                           call>>

\* lines 155-157: buffer the package document
FirstPassOpf ==
    /\ pc = "pass1" /\ idx <= Len(src)
    /\ Classify(src[idx].name) = "opf"
    /\ IF ~CanRead THEN ReadFailure
       ELSE /\ opf' = <<[path |-> src[idx].name, content |-> src[idx].data,
                         from |-> idx]>>
            /\ idx' = idx + 1
            /\ UNCHANGED <<extVars, jpeg_quality, cfg, src, pc, out_path, srcFile, zinOpen, zoutOpen,
                           dest, renamed, split_images, xhtml_files, stats,
                           result, call>>

\* lines 113-114 and the fall-through of the first pass
FirstPassSkip ==
    /\ pc = "pass1" /\ idx <= Len(src)
    /\ Classify(src[idx].name) \in {"mimetype", "other"}
    /\ idx' = idx + 1
    /\ UNCHANGED <<extVars, jpeg_quality, cfg, src, pc, out_path, srcFile, zinOpen, zoutOpen, dest,
                   renamed, split_images, xhtml_files, opf, stats, result,
                   call>>

FirstPassEnd ==
    /\ pc = "pass1" /\ idx > Len(src)
    /\ pc' = "pass2"
    /\ idx' = 1
    /\ UNCHANGED <<extVars, jpeg_quality, cfg, src, out_path, srcFile, zinOpen, zoutOpen, dest,
                   renamed, split_images, xhtml_files, opf, stats, result,
                   call>>

\* lines 160-222: rewrite and write one content document
SecondPassStep ==
    /\ pc = "pass2" /\ idx <= Len(xhtml_files)
    /\ LET f == xhtml_files[idx]
           rw == RewriteContent(f.content, renamed, split_images)
       IN  /\ dest' = Append(dest, Written(f.path, rw.content, "ZIP_DEFLATED",
                                           f.from, "content"))
           /\ stats' = IF rw.fixed
                       THEN [stats EXCEPT !.svg_covers_fixed = @ + 1]
                       ELSE stats
    /\ idx' = idx + 1
    /\ UNCHANGED <<extVars, jpeg_quality, cfg, src, pc, out_path, srcFile, zinOpen, zoutOpen,
                   renamed, split_images, xhtml_files, opf, result, call>>

SecondPassEnd ==
    /\ pc = "pass2" /\ idx > Len(xhtml_files)
    /\ pc' = "pass3"
    /\ idx' = 1
    /\ UNCHANGED <<extVars, jpeg_quality, cfg, src, out_path, srcFile, zinOpen, zoutOpen, dest,
                   renamed, split_images, xhtml_files, opf, stats, result,
                   call>>

\* if opf_content: an empty text is falsy
OpfTruthy == opf # <<>> /\ ~opf[1].content.blank

\* lines 225-273: rewrite and write the package document
ThirdPassOpf ==
    /\ pc = "pass3"
    /\ OpfTruthy
    /\ dest' = Append(dest,
                  Written(opf[1].path,
                          RewriteOpf(opf[1].content, renamed, split_images),
                          "ZIP_DEFLATED", opf[1].from, "opf"))
    /\ pc' = "pass4"
    /\ idx' = 1
    /\ UNCHANGED <<extVars, jpeg_quality, cfg, src, out_path, srcFile, zinOpen, zoutOpen, renamed,
                   split_images, xhtml_files, opf, stats, result, call>>

ThirdPassNoOpf ==
    /\ pc = "pass3"
    /\ ~OpfTruthy
    /\ pc' = "pass4"
    /\ idx' = 1
    /\ UNCHANGED <<extVars, jpeg_quality, cfg, src, out_path, srcFile, zinOpen, zoutOpen, dest,
                   renamed, split_images, xhtml_files, opf, stats, result,
                   call>>

\* the fourth pass leaving out the entries it does not rewrite
FourthPassCopyStylesOnly ==
    /\ pc = "pass4" /\ idx <= Len(src)
    /\ Classify(src[idx].name) = "other"
    /\ IF ~CanRead THEN ReadFailure
       ELSE /\ dest' = IF IsCssNcx(src[idx].name)
                       THEN Append(dest,
                                Written(src[idx].name,
                                        RewriteStyle(src[idx].data, renamed),
                                        "ZIP_DEFLATED", idx, "remaining"))
                       ELSE dest
            /\ idx' = idx + 1
            /\ UNCHANGED <<extVars, jpeg_quality, cfg, src, pc, out_path, srcFile, zinOpen, zoutOpen,
                           renamed, split_images, xhtml_files, opf, stats,
                           result, call>>

\* lines 276-300: copy one remaining entry
FourthPassCopy ==
    /\ pc = "pass4" /\ idx <= Len(src)
    /\ Classify(src[idx].name) = "other"
    /\ IF ~CanRead THEN ReadFailure
       ELSE /\ dest' = Append(dest,
                          Written(src[idx].name,
                                  IF IsCssNcx(src[idx].name)
                                  THEN RewriteStyle(src[idx].data, renamed)
                                  ELSE src[idx].data,
                                  "ZIP_DEFLATED", idx, "remaining"))
            /\ idx' = idx + 1
            /\ UNCHANGED <<extVars, jpeg_quality, cfg, src, pc, out_path, srcFile, zinOpen, zoutOpen,
                           renamed, split_images, xhtml_files, opf, stats,
                           result, call>>

\* lines 277-287: entries the earlier passes have handled
FourthPassSkip ==
    /\ pc = "pass4" /\ idx <= Len(src)
    /\ Classify(src[idx].name) # "other"
    /\ idx' = idx + 1
    /\ UNCHANGED <<extVars, jpeg_quality, cfg, src, pc, out_path, srcFile, zinOpen, zoutOpen, dest,
                   renamed, split_images, xhtml_files, opf, stats, result,
                   call>>

\* lines 301-318: both with blocks exit, the destination path is returned
Finish ==
    /\ pc = "pass4" /\ idx > Len(src)
    /\ zinOpen' = FALSE
    /\ zoutOpen' = FALSE
    /\ srcFile' = IF out_path = "in" THEN "rewritten" ELSE srcFile
    /\ result' = [status |-> "returned", value |-> out_path]
    /\ pc' = "done"
    /\ UNCHANGED <<extVars, jpeg_quality, cfg, src, idx, out_path, dest, renamed, split_images,
                   xhtml_files, opf, stats, call>>

Next ==
    \/ OpenSource
    \/ OpenSourceFails
    \/ OpenDest
    \/ OpenDestFails
    \/ IOFailure
    \/ FirstPassImage
    \/ FirstPassContent
    \/ FirstPassOpf
    \/ FirstPassSkip
    \/ FirstPassEnd
    \/ SecondPassStep
    \/ SecondPassEnd
    \/ ThirdPassOpf
    \/ ThirdPassNoOpf
    \/ FourthPassCopy
    \/ FourthPassSkip
    \/ Finish

Spec == Init /\ [][Next]_vars

-----------------------------------------------------------------------------
(* One converter converting several archives in sequence *)

\* a book with a split-able cover, a book without images or package
\* document, and a lone undecodable image
RunArchives ==
    LET cover == Name("i/", "cover", "png")
    IN  {<<Entry(MimetypeName, Raw("application/epub+zip")),
           Entry(Name("", "p", "opf"),
                 Opf(ItemsOf(<<cover>>, <<"id", "href", "mt">>), <<>>)),
           Entry(Name("", "c", "xhtml"),
                 Text("<title>Cover</title>", <<Tok("svg", Basename(cover))>>)),
           Entry(Name("", "s", "css"),
                 Text("", <<Tok("url", Basename(cover))>>)),
           Entry(cover, Image(TRUE, 10, 8))>>,
         <<Entry(Name("", "c", "xhtml"), Text("", <<>>)),
           Entry(Name("", "n", "txt"), Raw("bytes"))>>,
         <<Entry(Name("i/", "cover", "jpg"), Image(FALSE, 1, 1))>>}

InitRuns ==
    /\ ExtIdle
    /\ jpeg_quality = DefaultQuality
    /\ cfg \in Configs
    /\ src \in RunArchives
    /\ pc = "idle"
    /\ idx = 0
    /\ out_path = ""
    /\ srcFile = "intact"
    /\ zinOpen = FALSE
    /\ zoutOpen = FALSE
    /\ dest = <<>>
    /\ renamed = [n \in {} |-> n]
    /\ split_images = <<>>
    /\ xhtml_files = <<>>
    /\ opf = <<>>
    /\ stats = ZeroStats
    /\ result = NoResult
    /\ call = NoCall

\* the caller, after a call has returned or raised, calls convert_epub of the
\* same converter on another archive: self.stats is what the earlier call
\* left, the local tables of the earlier call are gone
NewCall ==
    /\ pc \in {"done", "raised"}
    /\ src' \in RunArchives
    /\ pc' = "idle"
    /\ idx' = 0
    /\ out_path' = ""
    /\ srcFile' = "intact"
    /\ dest' = <<>>
    /\ renamed' = [n \in {} |-> n]
    /\ split_images' = <<>>
    /\ xhtml_files' = <<>>
    /\ opf' = <<>>
    /\ result' = NoResult
    /\ call' = NoCall
    /\ UNCHANGED <<extVars, jpeg_quality, cfg, zinOpen, zoutOpen, stats>>

NextRuns ==
    \/ NewCall
    \/ OpenSource
    \/ OpenSourceFails
    \/ OpenDest
    \/ OpenDestFails
    \/ IOFailure
    \/ FirstPassImage
    \/ FirstPassContent
    \/ FirstPassOpf
    \/ FirstPassSkip
    \/ FirstPassEnd
    \/ SecondPassStep
    \/ SecondPassEnd
    \/ ThirdPassOpf
    \/ ThirdPassNoOpf
    \/ FourthPassCopy
    \/ FourthPassSkip
    \/ Finish

SpecRuns == InitRuns /\ [][NextRuns]_vars

-----------------------------------------------------------------------------
(* _process_image on its own, over every small image and configuration *)

ImgConfigs ==
    {Config(mw, mh, ov, sr) :
        mw \in {2, 4}, mh \in {3, 10}, ov \in {0, 25, 50, 100},
        sr \in BOOLEAN}
    \cup {Config(480, 800, 15, TRUE)}     \* the defaults, light novel mode
    \cup {Config(14, 30, 25, TRUE)}

ImgInputs ==
    {Image(FALSE, 1, 1)} \cup {Image(TRUE, w, h) : w, h \in 1..MaxDim}
    \cup {Image(TRUE, 1600, 1000), Image(TRUE, 22, 11)}

\* requested qualities: below, at both ends of, inside and above 1..95
Qualities == {0, 1, 85, 95, 96, 200}

InitImg ==
    /\ ExtIdle
    /\ jpeg_quality \in Qualities
    /\ \E c \in ImgConfigs :
          cfg = __init__(jpeg_quality, c.max_width, c.max_height,
                         c.enable_split_rotate, c.overlap)
    /\ src = <<>>
    /\ pc = "imgcall"
    /\ idx = 0
    /\ out_path = ""
    /\ srcFile = "intact"
    /\ zinOpen = FALSE
    /\ zoutOpen = FALSE
    /\ dest = <<>>
    /\ renamed = [n \in {} |-> n]
    /\ split_images = <<>>
    /\ xhtml_files = <<>>
    /\ opf = <<>>
    /\ stats = ZeroStats
    /\ result = NoResult
    /\ \E d \in ImgInputs : call = [made |-> FALSE, data |-> d, out |-> Raised]

ImgCall ==
    /\ pc = "imgcall"
    /\ call' = [made |-> TRUE, data |-> call.data,
                out |-> _process_image(cfg, call.data)]
    /\ pc' = "imgdone"
    /\ UNCHANGED <<extVars, jpeg_quality, cfg, src, idx, out_path, srcFile, zinOpen, zoutOpen, dest,
                   renamed, split_images, xhtml_files, opf, stats, result>>

NextImg == ImgCall

SpecImg == InitImg /\ [][NextImg]_vars

-----------------------------------------------------------------------------
(* _fix_svg_cover and _ensure_cover_meta on their own *)

MaxToks == 2

\* references of a page: an image, another one, and an empty attribute value
SvgRefs ==
    {NoRef, Basename(Name("i/", "cover", "jpg")), Basename(Name("i/", "b", "png"))}

SvgDocs ==
    {Text(c, t) : c \in CoverMarkers \cup {""},
                  t \in TokSeqs(ContentForms, SvgRefs, MaxToks)}

\* ids of manifest items; the last one holds a slash
MetaIds == {Id("cover"), Id("x"), [p |-> "images/", s |-> "cover", n |-> 0]}

MetaItems ==
    {Item(i, h, m, o = <<"id", "props", "href", "mt">>, o) :
        i \in MetaIds,
        h \in {Basename(Name("i/", "cover", "jpg")),
               Basename(Name("i/", "b", "jpg"))},
        m \in {"image/jpeg", "text/css"},
        o \in {<<"id", "href", "mt">>, <<"href", "mt", "id">>,
               <<"id", "props", "href", "mt">>}}

MetaTags ==
    {Meta(v, o, c) :
        v \in MetaIds \cup {[p |-> "images/", s |-> "cover.jpg", n |-> 0]},
        o \in {"nc", "cn"}, c \in {"/>", " />"}}

\* package documents with one manifest item, with or without a cover meta
\* tag and a </metadata> tag
MetaDocs ==
    {[Opf(<<it>>, mt) EXCEPT !.closeMetadata = cm] :
        it \in MetaItems, mt \in {<<>>} \cup {<<t>> : t \in MetaTags},
        cm \in BOOLEAN}

InitText ==
    /\ ExtIdle
    /\ jpeg_quality = DefaultQuality
    /\ cfg = Config(480, 800, 15, FALSE)
    /\ src = <<>>
    /\ idx = 0
    /\ out_path = ""
    /\ srcFile = "intact"
    /\ zinOpen = FALSE
    /\ zoutOpen = FALSE
    /\ dest = <<>>
    /\ renamed = [n \in {} |-> n]
    /\ split_images = <<>>
    /\ xhtml_files = <<>>
    /\ opf = <<>>
    /\ stats = ZeroStats
    /\ result = NoResult
    /\ \/ /\ pc = "fixcall"
          /\ \E d \in SvgDocs :
                call = [made |-> FALSE, data |-> d,
                        out |-> [content |-> d, fixed |-> FALSE]]
       \/ /\ pc = "metacall"
          /\ \E d \in MetaDocs :
                call = [made |-> FALSE, data |-> d,
                        out |-> [content |-> d, fixed |-> FALSE]]

\* fixed_svg = self._fix_svg_cover(text)
FixSvgCall ==
    /\ pc = "fixcall"
    /\ call' = [made |-> TRUE, data |-> call.data,
                out |-> _fix_svg_cover(call.data)]
    /\ pc' = "fixdone"
    /\ UNCHANGED <<extVars, jpeg_quality, cfg, src, idx, out_path, srcFile, zinOpen,
                   zoutOpen, dest, renamed, split_images, xhtml_files, opf,
                   stats, result>>

\* fixed_cover = self._ensure_cover_meta(opf_text)
CoverMetaCall ==
    /\ pc = "metacall"
    /\ call' = [made |-> TRUE, data |-> call.data,
                out |-> _ensure_cover_meta(call.data)]
    /\ pc' = "metaonce"
    /\ UNCHANGED <<extVars, jpeg_quality, cfg, src, idx, out_path, srcFile, zinOpen,
                   zoutOpen, dest, renamed, split_images, xhtml_files, opf,
                   stats, result>>

\* _ensure_cover_meta applied to the text it has just returned
CoverMetaAgain ==
    /\ pc = "metaonce"
    /\ call' = [made |-> TRUE, data |-> call.out.content,
                out |-> _ensure_cover_meta(call.out.content)]
    /\ pc' = "metatwice"
    /\ UNCHANGED <<extVars, jpeg_quality, cfg, src, idx, out_path, srcFile, zinOpen,
                   zoutOpen, dest, renamed, split_images, xhtml_files, opf,
                   stats, result>>

NextText == FixSvgCall \/ CoverMetaCall \/ CoverMetaAgain

SpecText == InitText /\ [][NextText]_vars

-----------------------------------------------------------------------------
(* Properties *)

DestNames == {dest[j].name : j \in 1..Len(dest)}
DestBasenames == {Basename(dest[j].name) : j \in 1..Len(dest)}

SrcIndex(n) == CHOOSE i \in 1..Len(src) : src[i].name = n

RefsOf(d) ==
    IF d.kind = "text" THEN {d.toks[i].ref : i \in 1..Len(d.toks)}
    ELSE IF d.kind = "opf" THEN {d.items[i].href : i \in 1..Len(d.items)}
    ELSE {}

\* C2: referential closure: after the conversion every image basename in a
\* rewritten content document or package document names an entry of the
\* destination archive.
C2_ReferentialClosure ==
    pc = "done" =>
        \A j \in 1..Len(dest) :
            Classify(dest[j].name) \in {"content", "opf"} =>
                RefsOf(dest[j].data) \subseteq DestBasenames

\* the pass that handles a source entry of a given class
PassOf(c) == IF c = "other" THEN "remaining" ELSE c

\* C3: every source entry is handled by exactly one pass and no destination
\* entry name is written more than once.
C3_VisitedOnceWrittenOnce ==
    /\ \A j \in 1..Len(dest) :
          dest[j].pass = PassOf(Classify(src[dest[j].from].name))
    /\ \A i, j \in 1..Len(dest) : dest[i].name = dest[j].name => i = j

PassRank(c) ==
    CASE c = "mimetype" -> 0
      [] c = "image" -> 1
      [] c = "content" -> 2
      [] c = "opf" -> 3
      [] OTHER -> 4

\* every raster entry of the source has been transcoded and recorded
ImagePassComplete ==
    /\ \A n \in Names : Lower(n.ext) \in RenameExts => n \in DOMAIN renamed
    /\ \A i \in 1..Len(src) :
          Classify(src[i].name) = "image" =>
              /\ \E j \in 1..Len(dest) : dest[j].from = i
              /\ \A j \in 1..Len(dest) :
                    (dest[j].from = i /\ dest[j].name.part > 0) =>
                        \E k \in 1..Len(split_images) :
                            \E m \in 1..Len(split_images[k].parts) :
                                split_images[k].parts[m].path = dest[j].name

\* C4: the destination entries appear in pass order (mimetype, images, content
\* documents, package document, remaining entries), and a content or package
\* document is written only after every raster entry has been transcoded and
\* recorded in the rename and fan-out tables.
C4_PassOrder ==
    /\ \A i, j \in 1..Len(dest) :
          i < j => PassRank(Classify(dest[i].name))
                      <= PassRank(Classify(dest[j].name))
    /\ (\E j \in 1..Len(dest) : Classify(dest[j].name) \in {"content", "opf"})
          => ImagePassComplete

\* a finished conversion of an archive that lists a document before a split
\* image
C4_Witness ==
    /\ pc = "done"
    /\ \E i, j \in 1..Len(src) :
          /\ i < j
          /\ Classify(src[i].name) \in {"content", "opf"}
          /\ Classify(src[j].name) = "image"
    /\ split_images # <<>>
    /\ \E j \in 1..Len(dest) : Classify(dest[j].name) \in {"content", "opf"}

\* C5: a finished conversion represents every source entry: a non-image entry
\* under its own name, an image under its .jpg name or its tile names.
C5_Complete ==
    pc = "done" =>
        \A i \in 1..Len(src) :
            IF Classify(src[i].name) = "image"
            THEN \E j \in 1..Len(dest) :
                    /\ dest[j].from = i
                    /\ dest[j].name.dir = src[i].name.dir
                    /\ dest[j].name.stem = src[i].name.stem
                    /\ dest[j].name.ext = "jpg"
            ELSE \E j \in 1..Len(dest) :
                    dest[j].from = i /\ dest[j].name = src[i].name

ImageEntries == {j \in 1..Len(dest) : Classify(src[dest[j].from].name) = "image"}
TileEntries == {j \in ImageEntries : dest[j].name.part > 0}
SplitSources == {dest[j].from : j \in TileEntries}

\* C6: at the end of a run images_converted is the number of image entries
\* written, tiles included, and images_split is the number of tiles minus the
\* number of images that were split.
C6_StatsAccounting ==
    pc = "done" =>
        /\ stats.images_converted = Cardinality(ImageEntries)
        /\ stats.images_split =
              Cardinality(TileEntries) - Cardinality(SplitSources)

\* a finished conversion that wrote a split image and an unsplit one
C6_Witness ==
    /\ pc = "done"
    /\ TileEntries # {}
    /\ ImageEntries # TileEntries
    /\ stats.images_split >= 2

\* C7: _process_image never raises; when a step of the processing fails it
\* returns one part holding the input bytes, with an empty suffix.
C7_NeverRaises ==
    call.made =>
        /\ ~call.out.raised
        /\ ProcessImageTry(cfg, call.data).raised =>
              call.out.parts = <<[data |-> call.data, suffix |-> 0]>>

\* a call on a decodable image whose scaling or splitting failed
C7_Witness ==
    /\ call.made
    /\ call.data.ok
    /\ ProcessImageTry(cfg, call.data).raised
    /\ ~call.out.raised

ArchiveIOErrors == {"OSError", "BadZipFile"}

\* C9: when the source cannot be opened or the destination cannot be created
\* or written, the error reaches the caller: no path is returned.
C9_ErrorsPropagate ==
    [][/\ (OpenSourceFails \/ OpenDestFails \/ IOFailure) =>
              /\ pc' = "raised"
              /\ result'.status = "raised"
              /\ result'.value \in ArchiveIOErrors
       /\ result'.status = "returned" => (pc = "pass4" /\ idx > Len(src))]_vars

\* the source could not be opened or the destination not created
C9_Witness ==
    /\ pc = "raised"
    /\ result.status = "raised"
    /\ result.value \in ArchiveIOErrors
    /\ dest = <<>>
    /\ out_path # "in"

\* C10: on every exit of convert_epub both archive handles are released.
C10_HandlesReleased ==
    pc \in {"done", "raised"} => (~zinOpen /\ ~zoutOpen)

\* an exception in the middle of a pass, after entries were written
C10_Witness ==
    /\ pc = "raised"
    /\ Len(dest) >= 2
    /\ ~zinOpen
    /\ ~zoutOpen

-----------------------------------------------------------------------------
(* Image processing contracts (_process_image on its own) *)

\* the requested quality brought into 1..95
Clamped(q) == IF q < 1 THEN 1 ELSE IF q > 95 THEN 95 ELSE q

\* C11: the effective encoder quality is the requested quality clamped to
\* 1..95 (0 gives 1, 200 gives 95), and every image the converter encodes is
\* encoded at that quality.
C11_QualityClamp ==
    /\ cfg.jpeg_quality = Clamped(jpeg_quality)
    /\ jpeg_quality = 0 => cfg.jpeg_quality = 1
    /\ jpeg_quality = 200 => cfg.jpeg_quality = 95
    /\ call.made =>
          \A k \in DOMAIN call.out.parts :
              call.out.parts[k].data.kind = "jpeg" =>
                  call.out.parts[k].data.q = Clamped(jpeg_quality)

\* a converter created with quality 200 has encoded an image at quality 95
C11_Witness ==
    /\ jpeg_quality = 200
    /\ call.made
    /\ call.out.parts # <<>>
    /\ call.out.parts[1].data.kind = "jpeg"
    /\ call.out.parts[1].data.q = 95

Abs(n) == IF n < 0 THEN -n ELSE n

\* the latest call was made on a decodable image that is not wider than high
NonWideCall == call.made /\ call.data.ok /\ call.data.w <= call.data.h

Oversized(c, d) == d.w > c.max_width \/ d.h > c.max_height

\* C12: an oversized image that is not wide comes out as one image within
\* max_width x max_height whose sides are in the input's proportion to within
\* one pixel; an image that already fits keeps its size.
C12_NormalPathBound ==
    NonWideCall =>
        /\ Len(call.out.parts) = 1
        /\ LET o == call.out.parts[1].data
               d == call.data
           IN  IF Oversized(cfg, d)
               THEN /\ o.w <= cfg.max_width
                    /\ o.h <= cfg.max_height
                    /\ Abs((o.w * d.h) - (o.h * d.w)) < d.h
               ELSE o.w = d.w /\ o.h = d.h

\* the latest call was made on an image that takes the split-rotate path
SplitCall ==
    /\ call.made
    /\ call.data.ok
    /\ call.data.w > call.data.h
    /\ Oversized(cfg, call.data)
    /\ cfg.enable_split_rotate

\* width of the image after the rescale to max_height and the rotation
RotatedWidth(c, d) == IntProduct(d.h, c.max_height, d.w)

\* the overlap fractions the converter is specified for: 0.0 to 0.5
OverlapInRange(c) == c.overlap >= 0 /\ c.overlap <= 50

Ceil(a, b) == IF a % b = 0 THEN a \div b ELSE (a \div b) + 1

\* C13: a rotated image wider than max_width is cut into
\* ceil((rotatedWidth - overlapPx) / step) tiles; tile i starts at
\* max(0, rotatedWidth - max_width - i * step), the last one at 0, and is
\* min(max_width, rotatedWidth - x) wide.  1600x1000 at 480x800 with overlap
\* 0.15 gives two tiles, at x = 20 and x = 0, both 480 wide.
C13_SplitTiling ==
    /\ (SplitCall /\ OverlapInRange(cfg)
          /\ RotatedWidth(cfg, call.data) > cfg.max_width) =>
          LET rotatedWidth == RotatedWidth(cfg, call.data)
              overlapPx == (cfg.max_width * cfg.overlap) \div 100
              step == cfg.max_width - overlapPx
              numParts == Ceil(rotatedWidth - overlapPx, step)
              start(i) == IF i = numParts - 1 THEN 0
                          ELSE Max(0, rotatedWidth - cfg.max_width - (i * step))
          IN  /\ Len(call.out.parts) = numParts
              /\ \A i \in 0..(numParts - 1) :
                    /\ call.out.parts[i + 1].data.kind = "jpeg"
                    /\ call.out.parts[i + 1].data.x = start(i)
                    /\ call.out.parts[i + 1].data.w =
                           Min(cfg.max_width, rotatedWidth - start(i))
    /\ (SplitCall /\ call.data.w = 1600 /\ call.data.h = 1000
          /\ cfg.max_width = 480 /\ cfg.max_height = 800 /\ cfg.overlap = 15) =>
          /\ Len(call.out.parts) = 2
          /\ call.out.parts[1].data.x = 20 /\ call.out.parts[1].data.w = 480
          /\ call.out.parts[2].data.x = 0 /\ call.out.parts[2].data.w = 480

\* the 1600x1000 image has been cut for the 480x800 screen
C13_Witness ==
    /\ SplitCall
    /\ call.data.w = 1600 /\ call.data.h = 1000
    /\ cfg.max_width = 480 /\ cfg.max_height = 800 /\ cfg.overlap = 15
    /\ Len(call.out.parts) = 2

-----------------------------------------------------------------------------
(* Text repair contracts (_ensure_cover_meta, _fix_svg_cover on their own) *)

\* C14: _ensure_cover_meta applied to a text it has returned returns that
\* same text.
C14_CoverMetaIdempotent ==
    pc = "metatwice" => call.out.content = call.data

\* the first svg reference with a value, if the page has one
SvgTargets(d) ==
    {i \in 1..Len(d.toks) : d.toks[i].form = "svg" /\ d.toks[i].ref # NoRef}

-----------------------------------------------------------------------------
(* Image processing contracts, continued *)

\* what _process_image returns when the path it took returned or raised r
Caught(r, data) ==
    IF r.raised THEN Returned(<<[data |-> data, suffix |-> 0]>>) ELSE r

\* C16: the split-rotate path is taken exactly when the image is wider than
\* high, exceeds max_width or max_height, and light novel mode is on; every
\* other image takes the normal path and gives one part with an empty suffix.
C16_PathDecision ==
    (call.made /\ call.data.ok) =>
        LET d == call.data
            isWide == d.w > d.h
            exceedsScreen == d.w > cfg.max_width \/ d.h > cfg.max_height
        IN  IF isWide /\ exceedsScreen /\ cfg.enable_split_rotate
            THEN call.out = Caught(_process_split_rotate(cfg, d.w, d.h), d)
            ELSE /\ call.out = Caught(_process_normal(cfg, d.w, d.h), d)
                 /\ Len(call.out.parts) = 1
                 /\ call.out.parts[1].suffix = 0

\* a wide oversized image was cut in light novel mode, into tiles as high as
\* the rotated image
C16_Witness ==
    /\ call.made
    /\ call.data.ok
    /\ call.data.w > call.data.h
    /\ cfg.enable_split_rotate
    /\ Len(call.out.parts) >= 2
    /\ call.out.parts[1].data.h = cfg.max_height

-----------------------------------------------------------------------------
(* Conversion contracts, continued (convert_epub) *)

\* C17: the rename map has no collisions: no two source entries map to the
\* same new name, and no new name is the name of another source entry.
C17_RenameNoCollision ==
    /\ \A a, b \in DOMAIN renamed : a # b => renamed[a] # renamed[b]
    /\ \A a \in DOMAIN renamed :
          \A n \in Names : n # a => renamed[a] # n

NoDecrease(a, b) ==
    /\ b.images_converted >= a.images_converted
    /\ b.svg_covers_fixed >= a.svg_covers_fixed
    /\ b.images_split >= a.images_split

\* C18: every call of convert_epub starts by resetting the statistics and
\* its tables, and the counters never decrease while the call runs, so that
\* nothing a call shows comes from an earlier call of the same converter.
C18_StatsPerRun ==
    [][/\ (pc = "idle" /\ pc' # "idle") => stats' = ZeroStats
       /\ (pc = "idle" /\ pc' = "opened") =>
             /\ renamed' = BuildRenamed(Names)
             /\ split_images' = <<>>
             /\ xhtml_files' = <<>>
             /\ opf' = <<>>
       /\ (pc # "idle" /\ pc' # "idle") => NoDecrease(stats, stats')]_vars

-----------------------------------------------------------------------------
(* Split-rotate contracts (_process_image on its own) *)

\* the latest call took the split-rotate path and encoded what it returned
SplitDone ==
    /\ SplitCall
    /\ call.out.parts # <<>>
    /\ call.out.parts[1].data.kind = "jpeg"

\* the size of the rotated image as the returned parts show it: the tiles
\* are cut from its right edge leftwards, over its full height
Rotated ==
    LET p == call.out.parts[1].data
    IN  [w |-> p.x + p.w, h |-> p.h]

\* C19 as stated: the pre-rotation size is
\* (max_height, round(height * max_height / width)), the scaled height being
\* rounded to the nearest integer.
C19_RoundedHeight ==
    SplitDone =>
        /\ Rotated.h = cfg.max_height
        /\ 2 * Abs((Rotated.w * call.data.w)
                   - (call.data.h * cfg.max_height)) <= call.data.w

\* C19, amended: the pre-rotation size is
\* (max_height, int(height * (max_height / width))): the scaled height is
\* height * max_height / width rounded down, or one less when that quotient
\* is a whole number; it is never rounded up.
C19_TruncatedHeight ==
    SplitDone =>
        /\ Rotated.h = cfg.max_height
        /\ Rotated.w * call.data.w <= call.data.h * cfg.max_height
        /\ \/ call.data.h * cfg.max_height < (Rotated.w + 1) * call.data.w
           \/ /\ call.data.h * cfg.max_height = (Rotated.w + 1) * call.data.w
              /\ <<call.data.h, cfg.max_height, call.data.w>> \in ShortProducts

\* a scaled height whose discarded fraction was more than a half
C19_Witness ==
    /\ SplitDone
    /\ 2 * ((call.data.h * cfg.max_height) - (Rotated.w * call.data.w))
          > call.data.w

\* C20: in the split-rotate path one part with an empty suffix is returned
\* exactly when the rotated width is at most max_width; otherwise at least
\* two parts are returned, suffixed _part1, _part2, ... in that order.
C20_SplitParts ==
    (SplitCall /\ OverlapInRange(cfg)) =>
        LET n == Len(call.out.parts)
        IN  IF RotatedWidth(cfg, call.data) <= cfg.max_width
            THEN n = 1 /\ call.out.parts[1].suffix = 0
            ELSE /\ n >= 2
                 /\ \A k \in 1..n : call.out.parts[k].suffix = k

\* an image cut into three tiles or more
C20_Witness ==
    /\ SplitCall
    /\ OverlapInRange(cfg)
    /\ Len(call.out.parts) >= 3
    /\ call.out.parts[3].suffix = 3


-----------------------------------------------------------------------------
(* Books whose references differ from the entry names in letter case, whose
   image names are numerals, and whose images share a basename *)

Ref(st, e) == [stem |-> st, part |-> 0, ext |-> e]

RefArchives ==
    LET cover == Name("i/", "cover", "png")
        one == Name("i/", "1", "png")
        w == Name("i/", "w", "png")
        w2 == Name("j/", "w", "png")
        order == <<"id", "href", "mt">>
    IN  {\* references to i/cover.png written COVER.PNG and cover.png, in
         \* double and in single quotes
         <<Entry(MimetypeName, Raw("application/epub+zip")),
           Entry(Name("", "p", "opf"),
                 Opf(<<Item(Id("u"), Ref("cover", "PNG"), "image/png", FALSE,
                            order),
                       Item(Id("l"), Ref("cover", "png"), "image/png", FALSE,
                            order),
                       QuotedItem(Id("s"), Ref("cover", "png"), "image/png",
                                  FALSE, <<"mt", "href", "id">>, "'"),
                       Item(Id("r"), Ref("cover", "png"), "image/png", FALSE,
                            <<"mt", "href", "id">>)>>, <<>>)),
           Entry(Name("", "c", "xhtml"),
                 Text("", <<Tok("img", Ref("cover", "PNG")),
                            Tok("img", Ref("cover", "png"))>>)),
           Entry(Name("", "s", "css"),
                 Text("", <<Tok("url", Ref("cover", "PNG")),
                            Tok("url", Ref("cover", "png"))>>)),
           Entry(cover, Image(TRUE, 1, 1))>>,
         \* a wide page named 1.png, referenced in a wrapper and in a bare tag
         <<Entry(Name("", "c", "xhtml"),
                 Text("", <<Tok("block", Basename(one)),
                            Tok("img", Basename(one))>>)),
           Entry(Name("", "p", "opf"), Opf(ItemsOf(<<one>>, order), <<>>)),
           Entry(one, Image(TRUE, 10, 8)),
           Entry(Name("", "n", "txt"), Raw("bytes"))>>,
         \* a wide page referenced in a wrapper, no package document
         <<Entry(Name("", "c", "xhtml"),
                 Text("", <<Tok("block", Basename(w)),
                            Tok("img", Basename(w))>>)),
           Entry(w, Image(TRUE, 10, 8))>>,
         \* two wide pages of one basename in two directories
         <<Entry(w, Image(TRUE, 10, 8)),
           Entry(w2, Image(TRUE, 10, 8)),
           Entry(Name("", "p", "opf"), Opf(ItemsOf(<<w, w2>>, order), <<>>))>>}

InitRefs ==
    /\ ExtIdle
    /\ jpeg_quality = DefaultQuality
    /\ cfg \in Configs
    /\ src \in RefArchives
    /\ pc = "idle"
    /\ idx = 0
    /\ out_path = ""
    /\ srcFile = "intact"
    /\ zinOpen = FALSE
    /\ zoutOpen = FALSE
    /\ dest = <<>>
    /\ renamed = [n \in {} |-> n]
    /\ split_images = <<>>
    /\ xhtml_files = <<>>
    /\ opf = <<>>
    /\ stats = ZeroStats
    /\ result = NoResult
    /\ call = NoCall

SpecRefs == InitRefs /\ [][Next]_vars

-----------------------------------------------------------------------------
(* Tile order, reference rewriting and the leftover entries *)

\* the start offsets of the returned tiles fall from one tile to the next
DecreasingOffsets ==
    (call.made /\ ~call.out.raised) =>
        \A k \in 1..(Len(call.out.parts) - 1) :
            (call.out.parts[k].suffix > 0) =>
                call.out.parts[k].data.x > call.out.parts[k + 1].data.x

\* C21: the tiles of one image are returned with strictly decreasing start
\* offsets, part 1 first; the split record of the image lists them as part
\* 1..N, and the tile entries of the image are written in that order.
C21_TileOrder ==
    /\ DecreasingOffsets
    /\ \A i \in 1..Len(split_images) :
          \A k \in 1..Len(split_images[i].parts) :
              /\ split_images[i].parts[k].imgName.part = k
              /\ split_images[i].parts[k].path.part = k
              /\ split_images[i].parts[k].id.n = k
    /\ \A i, j \in TileEntries :
          (i < j /\ dest[i].from = dest[j].from) =>
              /\ dest[i].name.part < dest[j].name.part
              /\ dest[i].data.x > dest[j].data.x

\* an image cut into three tiles, recorded and written
C21_Witness ==
    /\ call.made /\ ~call.out.raised
    /\ Len(call.out.parts) = 3
    /\ call.out.parts[2].data.x > 0
    /\ \E i \in 1..Len(split_images) : Len(split_images[i].parts) = 3
    /\ Cardinality(TileEntries) >= 3


\* the references of a rewritten document that a renamed image's basename
\* matches in some letter case
StaleRefs(d) ==
    {r \in RefsOf(d) : \E old \in DOMAIN renamed : MatchCI(r, Basename(old))}

\* C22: after a conversion that split nothing, no content document, package
\* document or css/ncx entry of the destination holds a reference that is
\* the basename of a renamed image in any letter case: each was rewritten to
\* the new .jpg basename.
C22_RenameAnyCase ==
    (pc = "done" /\ split_images = <<>>) =>
        \A j \in 1..Len(dest) :
            dest[j].pass \in {"content", "opf", "remaining"} =>
                StaleRefs(dest[j].data) = {}


\* the reference names the image of the split record: its basename as it is
\* in the source or with .jpg
RefersTo(ref, sp) == ref = sp.orig_name \/ ref = SubRenameExt(sp.orig_name)

\* a wrapper or a self-closed image tag that names a split image
SplitRefs(tk) ==
    {i \in 1..Len(split_images) :
        tk.form \in {"block", "img"} /\ RefersTo(tk.ref, split_images[i])}

\* one copy of the reference per tile, copy k naming tile k
TileCopies(toks) ==
    Flatten([i \in 1..Len(toks) |->
        IF SplitRefs(toks[i]) = {} THEN <<toks[i]>>
        ELSE LET sp == split_images[CHOOSE n \in SplitRefs(toks[i]) : TRUE]
             IN  [k \in 1..Len(sp.parts) |->
                     [toks[i] EXCEPT !.ref = sp.parts[k].imgName]]])

\* the document as the second pass has it before the split references are
\* expanded: the cover repaired, the plain renames done
BeforeSplits(content) ==
    LET fixed_svg == _fix_svg_cover(content)
        t == IF fixed_svg.fixed THEN fixed_svg.content ELSE content
    IN  RenameToks(renamed, t.toks)

\* C23: in a written content document every wrapper and every self-closed
\* image tag that named a split image with N tiles stands as exactly N copies
\* in tile order, copy k naming tile k, none of them expanded a second time;
\* the other references are as they were.
C23_SplitExpansion ==
    pc = "done" =>
        \A j \in 1..Len(dest) :
            dest[j].pass = "content" =>
                dest[j].data.toks = TileCopies(BeforeSplits(src[dest[j].from].data))


\* the media types the correction replaces
StaleTypes == {"image/png", "image/gif", "image/webp", "image/bmp"}

\* C24: in the written package document every manifest item of the source
\* whose href now ends in .jpg and which was declared as png, gif, webp or
\* bmp is declared as image/jpeg, whatever the order of its attributes; every
\* other item keeps the media type it was declared with.
C24_MediaTypeFix ==
    pc = "done" =>
        \A j \in 1..Len(dest) :
            dest[j].pass = "opf" =>
                LET S == src[dest[j].from].data.items
                    D == dest[j].data.items
                IN  /\ Len(D) >= Len(S)
                    /\ \A i \in 1..Len(S) :
                          D[i].mt = IF D[i].href.ext = "jpg"
                                       /\ S[i].mt \in StaleTypes
                                    THEN "image/jpeg"
                                    ELSE S[i].mt


\* the source images that were cut into tiles, and the tiles of one of them
TilesOf(i) == {j \in TileEntries : dest[j].from = i}

\* the items of the written package document that the source did not hold
AddedItems(j) ==
    SubSeq(dest[j].data.items, Len(src[dest[j].from].data.items) + 1,
           Len(dest[j].data.items))

\* C25: in the written package document every manifest item that named a
\* split image names its _part1.jpg tile; the items added are exactly one per
\* extra tile (parts 2..N of every split image), each declared image/jpeg, so
\* that their number equals images_split.
C25_ManifestTiles ==
    pc = "done" =>
        \A j \in 1..Len(dest) :
            dest[j].pass = "opf" =>
                LET S == src[dest[j].from].data.items
                    D == dest[j].data.items
                    added == AddedItems(j)
                IN  /\ Len(D) >= Len(S)
                    /\ \A i \in SplitSources : \A m \in 1..Len(S) :
                          S[m].href = Basename(src[i].name) =>
                              D[m].href = [stem |-> src[i].name.stem,
                                           part |-> 1, ext |-> "jpg"]
                    /\ Len(added) = stats.images_split
                    /\ \A m \in 1..Len(added) : added[m].mt = "image/jpeg"
                    /\ {added[m].href : m \in 1..Len(added)} =
                          {Basename(dest[t].name) :
                              t \in {u \in TileEntries : dest[u].name.part >= 2}}


\* the manifest items one of the six patterns takes for the cover, and the id
\* of the one the search stops at
CoverItems(content) ==
    {i \in 1..Len(content.items) :
        \E k \in 1..6 : CoverPattern(k, content.items[i])}

DiscoveredId(content) ==
    LET rank(i) == CHOOSE k \in 1..6 :
                       /\ CoverPattern(k, content.items[i])
                       /\ \A j \in 1..(k - 1) : ~CoverPattern(j, content.items[i])
        i0 == CHOOSE i \in CoverItems(content) :
                  \A j \in CoverItems(content) :
                      rank(i) < rank(j) \/ (rank(i) = rank(j) /\ i <= j)
    IN  content.items[i0].id

\* C26: when _ensure_cover_meta finds a cover item, the text it returns holds
\* a cover meta tag whose value is the id found: a tag that was there keeps
\* its place (and is overwritten when its value was wrong), and when there
\* was none one tag is put before </metadata>; when it finds no cover item it
\* returns the text unchanged.
C26_CoverMetaPresent ==
    pc = "metaonce" =>
        LET d == call.data
            r == call.out
        IN  IF CoverItems(d) = {}
            THEN r.content = d /\ ~r.fixed
            ELSE /\ \E m \in 1..Len(r.content.meta) :
                       r.content.meta[m].value = DiscoveredId(d)
                 /\ d.meta # <<>> => Len(r.content.meta) = Len(d.meta)
                 /\ d.meta = <<>> => Len(r.content.meta) = 1
                 /\ r.content.items = d.items


\* the source entries no pass rewrites: not mimetype, not an image, a content
\* document, a package document, a stylesheet or a navigation file
PassThrough ==
    {i \in 1..Len(src) :
        /\ ~IsMimetype(src[i].name)
        /\ LowerText(src[i].name.ext) \notin
              ImageExts \cup ContentExts \cup {"opf", "css", "ncx"}}

\* C27: after the conversion every source entry that no pass rewrites stands
\* in the destination once, under its own name and with its own bytes.
C27_PassThrough ==
    pc = "done" =>
        \A i \in PassThrough :
            /\ Cardinality({j \in 1..Len(dest) : dest[j].from = i}) = 1
            /\ \A j \in 1..Len(dest) :
                  dest[j].from = i =>
                      /\ dest[j].name = src[i].name
                      /\ dest[j].data = src[i].data

\* a finished conversion that copied an entry and rewrote a stylesheet
C27_Witness ==
    /\ pc = "done"
    /\ PassThrough # {}
    /\ \E j \in 1..Len(dest) : dest[j].from \in PassThrough
    /\ \E j \in 1..Len(dest) :
          /\ IsCssNcx(dest[j].name)
          /\ dest[j].data # src[dest[j].from].data


\* the image at position i of the source cannot be decoded or encoded
FailedImage(i) ==
    /\ Classify(src[i].name) = "image"
    /\ ProcessImageTry(cfg, src[i].data).raised

\* the first pass takes a failed image: it writes it and moves on
TakesFailedImage ==
    /\ pc = "pass1" /\ idx <= Len(src)
    /\ FailedImage(idx)
    /\ idx' = idx + 1

\* C28: an image that fails to decode or encode does not stop the
\* conversion: the first pass writes it once, under its mapped .jpg name and
\* with its original bytes, adds one to images_converted and goes on to the
\* next entry; no other step writes an entry for it.
C28_FailedImageKept ==
    [][/\ TakesFailedImage =>
             /\ pc' = "pass1"
             /\ dest' = Append(dest, Written(SubAnyExt(src[idx].name),
                                             src[idx].data, "ZIP_DEFLATED",
                                             idx, "image"))
             /\ stats'.images_converted = stats.images_converted + 1
             /\ stats'.images_split = stats.images_split
       /\ ~TakesFailedImage =>
             \A j \in 1..Len(dest') :
                 j > Len(dest) => ~FailedImage(dest'[j].from)]_vars

\* a finished conversion that kept a failed .png image and wrote entries
\* after it
C28_Witness ==
    /\ pc = "done"
    /\ \E j \in 1..Len(dest) :
          /\ FailedImage(dest[j].from)
          /\ src[dest[j].from].name.ext = "png"
          /\ dest[j].name.ext = "jpg"
          /\ dest[j].data = src[dest[j].from].data
          /\ j < Len(dest)
    /\ stats.images_converted >= 1


\* a call of the split path that returned tiles, the overlap fraction being
\* one the converter is specified for
TiledCall ==
    /\ SplitCall
    /\ OverlapInRange(cfg)
    /\ Len(call.out.parts) >= 2
    /\ \A k \in 1..Len(call.out.parts) : call.out.parts[k].data.kind = "jpeg"

\* the pixel columns tile k and tile k + 1 both hold: tile k + 1 lies to the
\* left of tile k
Overlap(k) ==
    LET a == call.out.parts[k].data
        b == call.out.parts[k + 1].data
    IN  (b.x + b.w) - a.x

\* C29: for an overlap fraction in 0..0.5 two consecutive tiles share exactly
\* overlapPx columns, except the last two, which share at least overlapPx;
\* the tiles cover every column 0..rotatedWidth-1 of the rotated image, and
\* the offset of every tile but the last is the unclamped
\* rotatedWidth - max_width - i * step.
C29_TileOverlap ==
    TiledCall =>
        LET n == Len(call.out.parts)
            rotatedWidth == RotatedWidth(cfg, call.data)
            overlapPx == (cfg.max_width * cfg.overlap) \div 100
            step == cfg.max_width - overlapPx
            covered == UNION {(call.out.parts[k].data.x)..
                                (call.out.parts[k].data.x
                                   + call.out.parts[k].data.w - 1) :
                              k \in 1..n}
        IN  /\ \A k \in 1..(n - 2) : Overlap(k) = overlapPx
            /\ Overlap(n - 1) >= overlapPx
            /\ covered = 0..(rotatedWidth - 1)
            /\ \A k \in 1..(n - 1) :
                  /\ call.out.parts[k].data.x =
                        rotatedWidth - cfg.max_width - ((k - 1) * step)
                  /\ call.out.parts[k].data.x >= 0

\* three tiles or more with a positive nominal overlap, the last two sharing
\* more than that
C29_Witness ==
    /\ TiledCall
    /\ Len(call.out.parts) >= 3
    /\ (cfg.max_width * cfg.overlap) \div 100 > 0
    /\ Overlap(1) = (cfg.max_width * cfg.overlap) \div 100
    /\ Overlap(Len(call.out.parts) - 1) > (cfg.max_width * cfg.overlap) \div 100


\* a call that took the split path and got parts back from it
SplitReturned ==
    /\ SplitCall
    /\ ~ProcessImageTry(cfg, call.data).raised

\* C30: every part the split path returns, the single unsplit part as well as
\* every tile, is exactly max_height high and at most max_width wide.
C30_PartSize ==
    SplitReturned =>
        /\ call.out.parts # <<>>
        /\ \A k \in 1..Len(call.out.parts) :
              /\ call.out.parts[k].data.kind = "jpeg"
              /\ call.out.parts[k].data.h = cfg.max_height
              /\ call.out.parts[k].data.w <= cfg.max_width
              /\ call.out.parts[k].data.w >= 1

\* a wide image returned as tiles of a height it did not have
C30_Witness ==
    /\ SplitReturned
    /\ Len(call.out.parts) >= 2
    /\ call.data.w # cfg.max_height
    /\ call.out.parts[2].data.h = cfg.max_height
    /\ call.out.parts[2].data.w = cfg.max_width


-----------------------------------------------------------------------------
(* Images outside the rename map *)

\* C31: an image that is not in the rename map (its extension is jpg in some
\* letter case) and that was not split stands in the destination under
\* exactly its source name.
C31_UnmappedNameKept ==
    pc = "done" =>
        \A j \in ImageEntries :
            (dest[j].name.part = 0 /\ src[dest[j].from].name \notin DOMAIN renamed) =>
                dest[j].name = src[dest[j].from].name

-----------------------------------------------------------------------------
(* CrossPointDevice._convert_epub and upload_books (driver.py) *)

\* the longest files and names arguments drawn
MaxFiles == 2

\* the converter is not running
ConvIdle ==
    /\ jpeg_quality = DefaultQuality
    /\ cfg = Config(480, 800, 15, FALSE)
    /\ src = <<>>
    /\ pc = "idle"
    /\ idx = 0
    /\ out_path = ""
    /\ srcFile = "intact"
    /\ zinOpen = FALSE
    /\ zoutOpen = FALSE
    /\ dest = <<>>
    /\ renamed = [n \in {} |-> n]
    /\ split_images = <<>>
    /\ xhtml_files = <<>>
    /\ opf = <<>>
    /\ stats = ZeroStats
    /\ result = NoResult
    /\ call = NoCall

\* the books of the caller, with os.path.getsize of each
Books == {"a.epub", "b.epub"}

InputSize(p) == IF p = "a.epub" THEN 3 ELSE 5

\* an element of files: a path, an object with read and name, or an object
\* with read and no name; subdirs tells whether the metadata of the book
\* yields sub-directories (_format_upload_path)
InFile(o, p, sd) == [obj |-> o, name |-> p, subdirs |-> sd]

InFiles ==
    {InFile("path", p, sd) : p \in Books, sd \in BOOLEAN}
        \cup {InFile("file", p, FALSE) : p \in Books}
        \cup {InFile("memory", "", FALSE)}

SeqsUpTo(S, n) == UNION {[1..k -> S] : k \in 0..n}

\* the name of book k of the call
BookName(k) == "n" \o ToString(k)

\* PersistentTemporaryFile(suffix='_baseline.epub').name
TempPath(k) == "t" \o ToString(k) \o "_baseline.epub"

IsTemp(p) == \E k \in 1..Len(tempfs) : tempfs[k].path = p

TempFile(p) == tempfs[CHOOSE k \in 1..Len(tempfs) : tempfs[k].path = p]

\* os.path.getsize
GetSize(p) == IF IsTemp(p) THEN TempFile(p).size ELSE InputSize(p)

\* what a run of the body of _convert_epub does: the converter is not reached
\* (EpubConverter or PersistentTemporaryFile raised), convert_epub raises
\* having written nothing or a part of the output, or it returns; remove
\* tells whether os.remove succeeds
ConvRun(c, w, r, k) == [converter |-> c, written |-> w, remove |-> r, size |-> k]

ConvRuns ==
    {ConvRun("not run", "none", TRUE, 0)}
        \cup {ConvRun("raised", w, r, 0) : w \in {"empty", "partial"}, r \in BOOLEAN}
        \cup {ConvRun("completed", "complete", TRUE, k) : k \in {1, 2}}

ConvCall(ip, en, tp, c, ret) ==
    [input |-> ip, enabled |-> en, temp |-> tp, converter |-> c, returned |-> ret,
     raised |-> FALSE]

NewTemp(st, k) == [path |-> TempPath(Len(tempfs) + 1), state |-> st, size |-> k]

\* _convert_epub with the exception of the converter left to the caller
ConvertEpubRaising(input_path, o) ==
    IF ~enable_conversion
        THEN /\ conv' = ConvCall(input_path, FALSE, "", "not run", input_path)
             /\ UNCHANGED <<tempfs, removals>>
    ELSE IF o.converter = "not run"
        THEN /\ conv' = ConvCall(input_path, TRUE, "", "not run", input_path)
             /\ UNCHANGED <<tempfs, removals>>
    ELSE IF o.converter = "raised"
        THEN /\ tempfs' = Append(tempfs, NewTemp(o.written, 0))
             /\ removals' = removals
             /\ conv' = [ConvCall(input_path, TRUE, TempPath(Len(tempfs) + 1), "raised",
                                  "") EXCEPT !.raised = TRUE]
    ELSE /\ tempfs' = Append(tempfs, NewTemp("complete", o.size))
         /\ removals' = removals
         /\ conv' = ConvCall(input_path, TRUE, TempPath(Len(tempfs) + 1), "completed",
                             TempPath(Len(tempfs) + 1))

\* CrossPointDevice._convert_epub(input_path), o being what its body meets
_convert_epub(input_path, o) ==
    IF ~enable_conversion
        THEN /\ conv' = ConvCall(input_path, FALSE, "", "not run", input_path)
             /\ UNCHANGED <<tempfs, removals>>
    ELSE IF o.converter = "not run"
        \* temp_path is None: nothing to remove
        THEN /\ conv' = ConvCall(input_path, TRUE, "", "not run", input_path)
             /\ UNCHANGED <<tempfs, removals>>
    ELSE IF o.converter = "raised"
        \* os.remove(temp_path); its failure is logged
        THEN /\ tempfs' = Append(tempfs, NewTemp(IF o.remove THEN "removed"
                                                 ELSE o.written, 0))
             /\ removals' = Append(removals, TempPath(Len(tempfs) + 1))
             /\ conv' = ConvCall(input_path, TRUE, TempPath(Len(tempfs) + 1), "raised",
                                 input_path)
    ELSE /\ tempfs' = Append(tempfs, NewTemp("complete", o.size))
         /\ removals' = removals
         /\ conv' = ConvCall(input_path, TRUE, TempPath(Len(tempfs) + 1), "completed",
                             TempPath(Len(tempfs) + 1))

NoUpload == [status |-> "none", value |-> <<>>]

InitDriver ==
    /\ ConvIdle
    /\ WsIdle
    /\ PresenceIdle
    /\ enable_conversion \in BOOLEAN
    /\ files \in SeqsUpTo(InFiles, MaxFiles)
    /\ \E n \in 0..MaxFiles : names = [k \in 1..n |-> BookName(k)]
    /\ upc = "called"
    /\ file_i = 0
    /\ filepath = ""
    /\ temp_files = <<>>
    /\ paths = <<>>
    /\ tempfs = <<>>
    /\ removals = <<>>
    /\ events = <<>>
    /\ conv = <<>>
    /\ uresult = NoUpload

\* the end of the try block: the finally clause runs next
Leave(status, value) ==
    /\ upc' = "finally"
    /\ uresult' = [status |-> status, value |-> value]

\* upload_books up to the try block: the lengths are compared first
UploadBooks ==
    /\ upc = "called"
    /\ IF Len(files) # Len(names)
           THEN /\ upc' = "done"
                /\ uresult' = [status |-> "raised", value |-> "ControlError"]
                /\ UNCHANGED file_i
       ELSE IF Len(files) = 0
           THEN /\ Leave("returned", <<>>)
                /\ UNCHANGED file_i
       ELSE /\ upc' = "convert"
            /\ file_i' = 1
            /\ UNCHANGED uresult
    /\ UNCHANGED <<convVars, wsVars, presenceVars, enable_conversion, files, names, filepath, temp_files, paths,
                   tempfs, removals, events, conv>>

\* the head of the loop body: the path of the file, then its conversion
ConvertFile ==
    /\ upc = "convert"
    /\ IF files[file_i].obj = "memory"
           THEN /\ Leave("raised", "ControlError")
                /\ UNCHANGED <<filepath, temp_files, tempfs, removals, events, conv>>
       ELSE /\ \E o \in ConvRuns : _convert_epub(files[file_i].name, o)
            \* an exception of the call would leave the try block here
            /\ IF conv'.raised
                   THEN /\ Leave("raised", "Exception")
                        /\ UNCHANGED <<filepath, temp_files, events>>
               ELSE /\ IF conv'.returned # files[file_i].name
                           THEN /\ temp_files' = Append(temp_files, conv'.returned)
                                /\ filepath' = conv'.returned
                       ELSE /\ temp_files' = temp_files
                            /\ filepath' = files[file_i].name
                    /\ events' = Append(events, <<"converted", file_i>>)
                    /\ upc' = "upload"
                    /\ UNCHANGED uresult
    /\ UNCHANGED <<convVars, wsVars, presenceVars, enable_conversion, files, names, file_i, paths>>

\* what the rest of the loop body meets: _ensure_dir raises (only a book with
\* sub-directories calls it), ws_client.upload_file raises, or it returns
UploadRuns(f) == {"failed", "uploaded"} \cup (IF f.subdirs THEN {"mkdir failed"} ELSE {})

LPath(f, name) == (IF f.subdirs THEN "/d/" ELSE "/") \o name

\* the rest of the loop body with a failed upload logged and passed over
UploadFileContinue ==
    /\ upc = "upload"
    /\ \E o \in UploadRuns(files[file_i]) :
          /\ events' = Append(events, <<o, file_i>>)
          /\ IF o = "mkdir failed"
                 THEN /\ Leave("raised", "ControlError")
                      /\ UNCHANGED <<paths, file_i>>
             ELSE /\ paths' = IF o = "uploaded"
                                  THEN Append(paths,
                                           [lpath |-> LPath(files[file_i], names[file_i]),
                                            size |-> GetSize(filepath)])
                              ELSE paths
                  /\ file_i' = file_i + 1
                  /\ IF file_i = Len(files)
                         THEN Leave("returned", paths')
                     ELSE upc' = "convert" /\ UNCHANGED uresult
    /\ UNCHANGED <<convVars, wsVars, presenceVars, enable_conversion, files, names, filepath, temp_files, tempfs,
                   removals, conv>>

\* the rest of the loop body: the target directory, the upload, the pair
UploadFile ==
    /\ upc = "upload"
    /\ \E o \in UploadRuns(files[file_i]) :
          /\ events' = Append(events, <<o, file_i>>)
          /\ IF o = "mkdir failed"
                 THEN /\ Leave("raised", "ControlError")
                      /\ UNCHANGED <<paths, file_i>>
             ELSE IF o = "failed"
                 \* except Exception: log, raise
                 THEN /\ Leave("raised", "WebSocketError")
                      /\ UNCHANGED <<paths, file_i>>
             ELSE /\ paths' = Append(paths,
                                  [lpath |-> LPath(files[file_i], names[file_i]),
                                   size |-> GetSize(filepath)])
                  /\ file_i' = file_i + 1
                  /\ IF file_i = Len(files)
                         THEN Leave("returned", paths')
                     ELSE upc' = "convert" /\ UNCHANGED uresult
    /\ UNCHANGED <<convVars, wsVars, presenceVars, enable_conversion, files, names, filepath, temp_files, tempfs,
                   removals, conv>>

\* the finally clause leaving the temporary files of a failed call behind
CleanupOnSuccess ==
    /\ upc = "finally"
    /\ \E failing \in SUBSET {temp_files[k] : k \in 1..Len(temp_files)} :
          tempfs' = [k \in 1..Len(tempfs) |->
                        IF /\ \E j \in 1..Len(temp_files) : temp_files[j] = tempfs[k].path
                           /\ tempfs[k].path \notin failing
                           /\ uresult.status = "returned"
                            THEN [tempfs[k] EXCEPT !.state = "removed"]
                        ELSE tempfs[k]]
    /\ removals' = IF uresult.status = "returned" THEN removals \o temp_files ELSE removals
    /\ upc' = "done"
    /\ UNCHANGED <<convVars, wsVars, presenceVars, enable_conversion, files, names, file_i, filepath, temp_files,
                   paths, events, conv, uresult>>

\* the finally clause of upload_books: os.remove on every path of temp_files,
\* a failing removal being logged; then the return or the pending exception
Cleanup ==
    /\ upc = "finally"
    /\ \E failing \in SUBSET {temp_files[k] : k \in 1..Len(temp_files)} :
          tempfs' = [k \in 1..Len(tempfs) |->
                        IF /\ \E j \in 1..Len(temp_files) : temp_files[j] = tempfs[k].path
                           /\ tempfs[k].path \notin failing
                            THEN [tempfs[k] EXCEPT !.state = "removed"]
                        ELSE tempfs[k]]
    /\ removals' = removals \o temp_files
    /\ upc' = "done"
    /\ UNCHANGED <<convVars, wsVars, presenceVars, enable_conversion, files, names, file_i, filepath, temp_files,
                   paths, events, conv, uresult>>

NextDriver == UploadBooks \/ ConvertFile \/ UploadFile \/ Cleanup

SpecDriver == InitDriver /\ [][NextDriver]_vars

-----------------------------------------------------------------------------
(* The conversion wrapper and the uploads of a call *)

\* a step of upload_books that calls _convert_epub
ConvertStep == upc = "convert" /\ files[file_i].obj # "memory"

\* the temporary file of the call that just ended
NewestTemp == tempfs[Len(tempfs)]

\* C32 as stated: _convert_epub never raises; disabled, it returns the input
\* path and creates no file; when the converter raises, the temporary file is
\* gone afterwards and the input path is returned; the temporary path is
\* returned only when the converter completed.
C32_ConvertedOrInput ==
    [][ConvertStep =>
          /\ ~conv'.raised
          /\ ~enable_conversion => (conv'.returned = conv'.input /\ tempfs' = tempfs)
          /\ conv'.converter = "raised" =>
                (conv'.returned = conv'.input /\ NewestTemp'.state = "removed")
          /\ conv'.returned # conv'.input =>
                /\ conv'.converter = "completed"
                /\ conv'.returned = NewestTemp'.path
                /\ NewestTemp'.state = "complete"]_vars

\* C32 amended: as above, but when the converter raises os.remove is called
\* on the temporary file, which is gone unless that call failed.
C32_RemovalAttempted ==
    [][ConvertStep =>
          /\ ~conv'.raised
          /\ ~enable_conversion => (conv'.returned = conv'.input /\ tempfs' = tempfs)
          /\ conv'.converter = "raised" =>
                /\ conv'.returned = conv'.input
                /\ removals' = Append(removals, NewestTemp'.path)
                /\ NewestTemp'.state \in {"removed", "empty", "partial"}
          /\ conv'.returned # conv'.input =>
                /\ conv'.converter = "completed"
                /\ conv'.returned = NewestTemp'.path
                /\ NewestTemp'.state = "complete"
                /\ removals' = removals]_vars

\* a conversion failed, its temporary file was removed and the input returned
C32_Witness ==
    /\ conv # <<>>
    /\ conv.converter = "raised"
    /\ conv.returned = conv.input
    /\ upc = "upload"
    /\ NewestTemp.state = "removed"

\* a conversion failed and os.remove failed too: the file is still there
C32_TempLeft ==
    /\ conv # <<>>
    /\ conv.converter = "raised"
    /\ upc = "upload"
    /\ NewestTemp.state = "partial"

\* the paths os.remove was called with
Removed == {removals[k] : k \in 1..Len(removals)}

\* C33: when upload_books has returned or raised, os.remove was called on
\* every temporary file a conversion of the call created, and on no file the
\* caller supplied; a temporary file still on disk is one whose removal failed.
C33_TempsCleaned ==
    upc = "done" =>
        /\ \A k \in 1..Len(tempfs) : tempfs[k].path \in Removed
        /\ \A k \in 1..Len(files) : files[k].name \notin Removed
        /\ \A p \in Removed : IsTemp(p)

\* a call that raised after a conversion had produced a temporary file which
\* the finally clause removed
C33_Witness ==
    /\ upc = "done"
    /\ uresult.status = "raised"
    /\ \E k \in 1..Len(tempfs) : tempfs[k].size > 0 /\ tempfs[k].state = "removed"

\* the events of the call that concern an upload
UploadEvents == {k \in 1..Len(events) : events[k][1] # "converted"}

\* C34: an upload of file i comes right after the conversion of file i and
\* after successful uploads of all files before it; a failed upload is the
\* last thing the call does and makes it raise; a returned list holds one
\* (lpath, size) pair per input file in input order; unequal lengths raise
\* ControlError with nothing converted or uploaded.
C34_AllOrError ==
    /\ \A k \in UploadEvents :
          /\ k > 1
          /\ events[k - 1] = <<"converted", events[k][2]>>
          /\ \A j \in 1..(events[k][2] - 1) :
                \E e \in 1..(k - 1) : events[e] = <<"uploaded", j>>
          /\ events[k][1] # "uploaded" =>
                /\ k = Len(events)
                /\ upc \in {"finally", "done"}
                /\ uresult.status = "raised"
    /\ uresult.status = "returned" =>
          /\ Len(uresult.value) = Len(files)
          /\ \A k \in 1..Len(files) :
                /\ uresult.value[k].lpath = LPath(files[k], names[k])
                /\ events[2 * k] = <<"uploaded", k>>
                /\ ~enable_conversion => uresult.value[k].size = InputSize(files[k].name)
    /\ (Len(files) # Len(names) /\ upc # "called") =>
          /\ upc = "done"
          /\ uresult = [status |-> "raised", value |-> "ControlError"]
          /\ events = <<>>
          /\ tempfs = <<>>

\* two files, both converted and uploaded, and the list of two pairs returned
C34_Witness ==
    /\ upc = "done"
    /\ uresult.status = "returned"
    /\ Len(uresult.value) = 2
    /\ Len(temp_files) = 2

-----------------------------------------------------------------------------
(* upload_file, delete_file, delete_files and WebSocketClient (ws_client.py),
   with the device as the other party of the connection *)

\* the most chunks a file has, the most progress messages the device sends
\* during a transfer, the most paths delete_files is given
MaxChunks == 2
MaxNotes == 1
MaxDeletes == 2

Ops == {"upload_file", "delete_file", "delete_files"}

\* frames: text (opcode 0x1), binary (0x2), close (0x8)
TextFrame(t) == [opcode |-> "text", payload |-> t]
BinaryFrame == [opcode |-> "binary", payload |-> "chunk"]
CloseFrame == [opcode |-> "close", payload |-> ""]

\* str.startswith('ERROR')
IsError(t) == Len(t) >= 5 /\ SubSeq(t, 1, 5) = "ERROR"

NoOutcome == [status |-> "none", value |-> ""]

InitWs ==
    /\ ConvIdle
    /\ DriverIdle
    /\ PresenceIdle
    /\ win32 \in BOOLEAN
    /\ op \in Ops
    /\ size \in (IF op = "upload_file" THEN 0..MaxChunks ELSE {0})
    /\ to_send \in (IF op = "upload_file" THEN {size}
                    ELSE IF op = "delete_files" THEN 0..MaxDeletes ELSE {0})
    /\ wpc = "connect"
    /\ sock = "None"
    /\ conn = "unopened"
    /\ net = "up"
    /\ outbox = <<>>
    /\ taken = 0
    /\ inbox = <<>>
    /\ dpc = "listening"
    /\ notes = 0
    /\ trace = <<>>
    /\ report = <<>>
    /\ wresult = NoOutcome

\* the end of the try block of the function: its finally clause runs next
Exit(status, value) ==
    /\ wpc' = "finally"
    /\ wresult' = [status |-> status, value |-> value]

\* the binary frames the device has read
Received == Cardinality({k \in 1..taken : outbox[k].opcode = "binary"})

\* the device has something left to do on this connection
DeviceActive ==
    /\ net = "up"
    /\ \/ dpc = "listening" /\ taken < Len(outbox)
       \/ dpc = "receiving"

\* WebSocketClient.read_text when no frame is there to read: recv returns
\* nothing on a lost connection (WebSocketError), and times out
\* (socket.timeout) when the device has nothing more to send
NothingToRead ==
    IF net = "down" THEN {"WebSocketError"}
    ELSE IF ~DeviceActive THEN {"timeout"}
    ELSE {}

\* WebSocketClient.connect: create_connection fails (sock stays None), the
\* handshake is not answered with 101 (sock is set), or the handshake is made
Connect ==
    /\ wpc = "connect"
    /\ \E r \in {"no connection", "no handshake", "connected"} :
          /\ net = "down" => r = "no connection"
          /\ IF r = "no connection"
                 THEN /\ Exit("raised", "WebSocketError")
                      /\ UNCHANGED <<sock, conn>>
             ELSE /\ sock' = "socket"
                  /\ conn' = "open"
                  /\ IF r = "no handshake"
                         THEN Exit("raised", "WebSocketError")
                     ELSE wpc' = "send" /\ UNCHANGED wresult
          /\ trace' = IF r = "connected" THEN Append(trace, <<"handshake", TextFrame("101")>>)
                      ELSE trace
    /\ UNCHANGED <<convVars, driverVars, presenceVars, win32, op, size, net, outbox, taken, inbox, dpc,
                   notes, to_send, report>>

\* WebSocketClient._send_frame: sock.sendall raises on a lost connection
Sent(f) ==
    /\ outbox' = Append(outbox, f)
    /\ trace' = Append(trace, <<"sent", f>>)

\* the command of the function: send_text(START...) or send_text(DELETE...);
\* delete_files sends one per path and catches what sending raises
SendCommand ==
    /\ wpc = "send"
    /\ IF op = "delete_files" /\ to_send = 0
           THEN /\ Exit("returned", report)
                /\ UNCHANGED <<outbox, trace, report, to_send>>
       ELSE IF net = "down"
           THEN IF op = "delete_files"
                    THEN /\ report' = Append(report, "failed")
                         /\ to_send' = to_send - 1
                         /\ UNCHANGED <<wpc, wresult, outbox, trace>>
                ELSE /\ Exit("raised", "OSError")
                     /\ UNCHANGED <<outbox, trace, report, to_send>>
       ELSE /\ Sent(TextFrame(IF op = "upload_file" THEN "START" ELSE "DELETE"))
            /\ wpc' = "reply"
            /\ UNCHANGED <<wresult, report, to_send>>
    /\ UNCHANGED <<convVars, driverVars, presenceVars, win32, op, size, sock, conn, net, taken, inbox,
                   dpc, notes>>

\* the first reply of upload_file taken for READY unless it is an error
ReadReadyLenient ==
    /\ wpc = "reply"
    /\ op = "upload_file"
    /\ IF inbox # <<>>
           THEN /\ inbox' = Tail(inbox)
                /\ IF Head(inbox).opcode = "close"
                       THEN /\ Exit("raised", "WebSocketError")
                            /\ UNCHANGED trace
                   ELSE /\ trace' = Append(trace, <<"read", Head(inbox)>>)
                        /\ IF IsError(Head(inbox).payload)
                               THEN Exit("raised", "WebSocketError")
                           ELSE /\ wpc' = IF to_send = 0 THEN "confirm" ELSE "chunks"
                                /\ UNCHANGED wresult
       ELSE /\ \E e \in NothingToRead : Exit("raised", e)
            /\ UNCHANGED <<inbox, trace>>
    /\ UNCHANGED <<convVars, driverVars, presenceVars, win32, op, size, sock, conn, net, outbox, taken,
                   dpc, notes, to_send, report>>

\* upload_file: msg = client.read_text() after START, and the three tests
ReadReady ==
    /\ wpc = "reply"
    /\ op = "upload_file"
    /\ IF inbox # <<>>
           THEN /\ inbox' = Tail(inbox)
                /\ IF Head(inbox).opcode = "close"
                       THEN /\ Exit("raised", "WebSocketError")
                            /\ UNCHANGED trace
                   ELSE /\ trace' = Append(trace, <<"read", Head(inbox)>>)
                        /\ IF Head(inbox).payload # "READY"
                               THEN Exit("raised", "WebSocketError")
                           \* an empty file: the loop ends on its first read
                           ELSE /\ wpc' = IF to_send = 0 THEN "confirm" ELSE "chunks"
                                /\ UNCHANGED wresult
       ELSE /\ \E e \in NothingToRead : Exit("raised", e)
            /\ UNCHANGED <<inbox, trace>>
    /\ UNCHANGED <<convVars, driverVars, presenceVars, win32, op, size, sock, conn, net, outbox, taken,
                   dpc, notes, to_send, report>>

\* upload_file: client.send_binary(chunk) on the next chunk of the file
SendChunk ==
    /\ wpc = "chunks"
    /\ IF net = "down"
           THEN /\ Exit("raised", "OSError")
                /\ UNCHANGED <<outbox, trace, to_send>>
       ELSE /\ Sent(BinaryFrame)
            /\ to_send' = to_send - 1
            /\ wpc' = "drain"
            /\ UNCHANGED wresult
    /\ UNCHANGED <<convVars, driverVars, presenceVars, win32, op, size, sock, conn, net, taken, inbox,
                   dpc, notes, report>>

\* the frames of a sequence before its first close frame
RECURSIVE BeforeClose(_)
BeforeClose(fs) ==
    IF fs = <<>> \/ Head(fs).opcode = "close" THEN <<>>
    ELSE <<Head(fs)>> \o BeforeClose(Tail(fs))

Drained(fs) == [k \in 1..Len(fs) |-> <<"drained", fs[k]>>]

\* WebSocketClient.drain_messages as upload_file calls it: the value returned
\* is not used.  Nothing is read on win32; elsewhere every frame that has
\* arrived is read, up to a close frame, which raises, as does the end of a
\* lost connection
DrainMessages ==
    /\ wpc = "drain"
    /\ IF win32
           THEN /\ wpc' = IF to_send = 0 THEN "confirm" ELSE "chunks"
                /\ UNCHANGED <<inbox, trace, wresult>>
       ELSE LET read == BeforeClose(inbox)
            IN  /\ trace' = trace \o Drained(read)
                /\ IF Len(read) < Len(inbox)
                       THEN /\ inbox' = SubSeq(inbox, Len(read) + 2, Len(inbox))
                            /\ Exit("raised", "WebSocketError")
                   ELSE /\ inbox' = <<>>
                        /\ IF net = "down"
                               THEN Exit("raised", "WebSocketError")
                           ELSE /\ wpc' = IF to_send = 0 THEN "confirm" ELSE "chunks"
                                /\ UNCHANGED wresult
    /\ UNCHANGED <<convVars, driverVars, presenceVars, win32, op, size, sock, conn, net, outbox, taken,
                   dpc, notes, to_send, report>>

\* upload_file: one round of the loop that waits for DONE or ERROR
ReadDone ==
    /\ wpc = "confirm"
    /\ IF inbox # <<>>
           THEN /\ inbox' = Tail(inbox)
                /\ IF Head(inbox).opcode = "close"
                       THEN /\ Exit("raised", "WebSocketError")
                            /\ UNCHANGED trace
                   ELSE /\ trace' = Append(trace, <<"read", Head(inbox)>>)
                        /\ IF Head(inbox).payload = "DONE"
                               THEN Exit("returned", "")
                           ELSE IF IsError(Head(inbox).payload)
                               THEN Exit("raised", "WebSocketError")
                           ELSE UNCHANGED <<wpc, wresult>>
       ELSE /\ \E e \in NothingToRead : Exit("raised", e)
            /\ UNCHANGED <<inbox, trace>>
    /\ UNCHANGED <<convVars, driverVars, presenceVars, win32, op, size, sock, conn, net, outbox, taken,
                   dpc, notes, to_send, report>>

\* delete_file: msg = client.read_text() after DELETE, and the three tests
ReadDeleted ==
    /\ wpc = "reply"
    /\ op = "delete_file"
    /\ IF inbox # <<>>
           THEN /\ inbox' = Tail(inbox)
                /\ IF Head(inbox).opcode = "close"
                       THEN /\ Exit("raised", "WebSocketError")
                            /\ UNCHANGED trace
                   ELSE /\ trace' = Append(trace, <<"read", Head(inbox)>>)
                        /\ IF Head(inbox).payload # "OK"
                               THEN Exit("raised", "WebSocketError")
                           ELSE Exit("returned", "")
       ELSE /\ \E e \in NothingToRead : Exit("raised", e)
            /\ UNCHANGED <<inbox, trace>>
    /\ UNCHANGED <<convVars, driverVars, presenceVars, win32, op, size, sock, conn, net, outbox, taken,
                   dpc, notes, to_send, report>>

\* delete_files: the reply to one DELETE; whatever read_text raises is caught
\* and the path is marked as failed
ReadDeletedNext ==
    /\ wpc = "reply"
    /\ op = "delete_files"
    /\ IF inbox # <<>>
           THEN /\ inbox' = Tail(inbox)
                /\ IF Head(inbox).opcode = "close"
                       THEN /\ report' = Append(report, "failed")
                            /\ UNCHANGED trace
                   ELSE /\ trace' = Append(trace, <<"read", Head(inbox)>>)
                        /\ report' = Append(report, IF Head(inbox).payload = "OK"
                                                        THEN "success" ELSE "failed")
       ELSE /\ NothingToRead # {}
            /\ report' = Append(report, "failed")
            /\ UNCHANGED <<inbox, trace>>
    /\ to_send' = to_send - 1
    /\ wpc' = "send"
    /\ UNCHANGED <<convVars, driverVars, presenceVars, win32, op, size, sock, conn, net, outbox, taken,
                   dpc, notes, wresult>>

\* close with the failure of the close frame left to the caller
CloseRaising ==
    /\ wpc = "finally"
    /\ IF sock = "None"
           THEN UNCHANGED <<sock, conn, outbox, trace, wresult>>
       ELSE IF net = "down"
           THEN /\ wresult' = [status |-> "raised", value |-> "OSError"]
                /\ UNCHANGED <<sock, conn, outbox, trace>>
       ELSE /\ Sent(CloseFrame)
            /\ conn' = "closed"
            /\ sock' = "None"
            /\ UNCHANGED wresult
    /\ wpc' = "done"
    /\ UNCHANGED <<convVars, driverVars, presenceVars, win32, op, size, net, taken, inbox, dpc, notes,
                   to_send, report>>

\* the finally clause of the function: WebSocketClient.close, then the return
\* or the pending exception
Close ==
    /\ wpc = "finally"
    /\ IF sock = "None"
           THEN UNCHANGED <<sock, conn, outbox, trace>>
       ELSE \* the close frame, whose failure is passed over; then sock.close()
            /\ IF net = "down" THEN UNCHANGED <<outbox, trace>> ELSE Sent(CloseFrame)
            /\ conn' = "closed"
            /\ sock' = "None"
    /\ wpc' = "done"
    /\ UNCHANGED <<convVars, driverVars, presenceVars, win32, op, size, net, taken, inbox, dpc, notes,
                   to_send, report, wresult>>

\* the device reads a command and answers it: START with READY, with an error
\* or with something else, or not at all; DELETE likewise
DeviceAnswer ==
    /\ net = "up"
    /\ dpc = "listening"
    /\ taken < Len(outbox)
    /\ taken' = taken + 1
    /\ LET f == outbox[taken + 1]
       IN  IF f.opcode = "close"
               THEN dpc' = "closed" /\ UNCHANGED inbox
           ELSE \E r \in {"READY", "OK", "ERROR: no", "", "BUSY", "none"} :
                  /\ r = "READY" => f.payload = "START"
                  /\ r = "OK" => f.payload = "DELETE"
                  /\ inbox' = IF r = "none" THEN inbox ELSE Append(inbox, TextFrame(r))
                  /\ dpc' = IF r = "READY" THEN "receiving"
                            ELSE IF f.payload = "START" THEN "refused"
                            ELSE "listening"
    /\ UNCHANGED <<convVars, driverVars, presenceVars, win32, op, size, wpc, sock, conn, net, outbox,
                   notes, to_send, trace, report, wresult>>

\* the device reads the next chunk
DeviceReceive ==
    /\ net = "up"
    /\ dpc = "receiving"
    /\ taken < Len(outbox)
    /\ outbox[taken + 1].opcode = "binary"
    /\ taken' = taken + 1
    /\ UNCHANGED <<convVars, driverVars, presenceVars, win32, op, size, wpc, sock, conn, net, outbox,
                   inbox, dpc, notes, to_send, trace, report, wresult>>

\* the device reports its progress
DeviceProgress ==
    /\ net = "up"
    /\ dpc = "receiving"
    /\ notes < MaxNotes
    /\ notes' = notes + 1
    /\ inbox' = Append(inbox, TextFrame("PROGRESS"))
    /\ UNCHANGED <<convVars, driverVars, presenceVars, win32, op, size, wpc, sock, conn, net, outbox,
                   taken, dpc, to_send, trace, report, wresult>>

\* the device has every chunk of the file and confirms the upload
DeviceDone ==
    /\ net = "up"
    /\ dpc = "receiving"
    /\ Received = size
    /\ inbox' = Append(inbox, TextFrame("DONE"))
    /\ dpc' = "finished"
    /\ UNCHANGED <<convVars, driverVars, presenceVars, win32, op, size, wpc, sock, conn, net, outbox,
                   taken, notes, to_send, trace, report, wresult>>

\* the device gives the transfer up, and may close the connection after that
DeviceError ==
    /\ net = "up"
    /\ dpc = "receiving"
    /\ \E closing \in BOOLEAN :
          inbox' = inbox \o <<TextFrame("ERROR: write")>>
                         \o (IF closing THEN <<CloseFrame>> ELSE <<>>)
    /\ dpc' = "failed"
    /\ UNCHANGED <<convVars, driverVars, presenceVars, win32, op, size, wpc, sock, conn, net, outbox,
                   taken, notes, to_send, trace, report, wresult>>

\* the connection is lost
ConnectionLost ==
    /\ net = "up"
    /\ wpc \notin {"finally", "done"}
    /\ net' = "down"
    /\ UNCHANGED <<convVars, driverVars, presenceVars, win32, op, size, wpc, sock, conn, outbox, taken,
                   inbox, dpc, notes, to_send, trace, report, wresult>>

NextWs ==
    \/ Connect \/ SendCommand \/ ReadReady \/ SendChunk \/ DrainMessages \/ ReadDone
    \/ ReadDeleted \/ ReadDeletedNext \/ Close
    \/ DeviceAnswer \/ DeviceReceive \/ DeviceProgress \/ DeviceDone \/ DeviceError
    \/ ConnectionLost

SpecWs == InitWs /\ [][NextWs]_vars

-----------------------------------------------------------------------------
(* The upload protocol and the socket of the client *)

\* positions of trace where the client sent a binary frame / read a text
BinarySends == {k \in 1..Len(trace) : trace[k] = <<"sent", BinaryFrame>>}

Reads == {k \in 1..Len(trace) : trace[k][1] = "read"}

\* the first text read_text returned is not READY
FirstReplyNotReady ==
    /\ Reads # {}
    /\ \E k \in Reads : (\A j \in Reads : k <= j) /\ trace[k][2].payload # "READY"

C36_NoMessageLost ==
    (op = "upload_file" /\ wpc = "done" /\ net = "up") =>
        /\ dpc = "finished" => wresult.status = "returned"
        /\ dpc = "failed" => wresult = [status |-> "raised", value |-> "WebSocketError"]

\* C37: the function ends through its finally clause, which leaves the
\* client without a socket and the socket of the connection closed, and
\* which changes nothing of the outcome, with no socket and with a close
\* frame that cannot be sent alike.
C37_SocketReleased ==
    [][wpc' # wpc =>
          /\ wpc' = "done" => wpc = "finally"
          /\ wpc = "finally" =>
                /\ wpc' = "done"
                /\ sock' = "None"
                /\ conn' # "open"
                /\ conn = "unopened" => conn' = "unopened"
                /\ wresult' = wresult]_vars

\* a call that ended on a lost connection: the close frame could not be
\* sent, the socket is closed
C37_Witness ==
    /\ wpc = "done"
    /\ net = "down"
    /\ conn = "closed"
    /\ sock = "None"
    /\ wresult.status = "raised"

-----------------------------------------------------------------------------
(* The presence of the device: detect_managed_devices, open, eject and
   stop_plugin of CrossPointDevice (driver.py) *)

\* _discover: no discovery within 2.0 seconds of the last one
DiscoveryWindow == 2

\* the clock of the model stops here
MaxTime == 7

\* what ws_client.discover_device returns: no device, a device with its
\* port, a device announcing port 0; or it raises (the socket is refused)
DiscoverDevice ==
    {[host |-> "None", port |-> 0, raised |-> FALSE],
     [host |-> "192.168.4.1", port |-> 81, raised |-> FALSE],
     [host |-> "192.168.4.1", port |-> 0, raised |-> FALSE],
     [host |-> "None", port |-> 0, raised |-> TRUE]}

\* time.time() at the first call lies far more than 2.0 seconds after the
\* initial last_discovery of 0.0
InitPresence ==
    /\ ConvIdle
    /\ DriverIdle
    /\ WsIdle
    /\ is_connected = FALSE
    /\ device_host = "None"
    /\ device_port = 0
    /\ last_discovery = 0
    /\ now = DiscoveryWindow
    /\ discoveries = <<>>
    /\ presence = <<>>

Called(name, outcome) == [call |-> name, result |-> outcome, at |-> now]

\* detect_managed_devices with a discovery on every call
DetectUnlimited ==
    /\ IF is_connected
           THEN /\ presence' = Called("detect_managed_devices", "self")
                /\ UNCHANGED <<is_connected, device_host, device_port, last_discovery,
                               discoveries>>
       ELSE /\ last_discovery' = now
            /\ discoveries' = Append(discoveries, now)
            /\ \E d \in DiscoverDevice :
                  IF d.raised
                      THEN /\ presence' = Called("detect_managed_devices", "raised")
                           /\ UNCHANGED <<is_connected, device_host, device_port>>
                  ELSE IF d.host # "None" /\ d.port # 0
                      THEN /\ device_host' = d.host
                           /\ device_port' = d.port
                           /\ is_connected' = TRUE
                           /\ presence' = Called("detect_managed_devices", "self")
                  ELSE /\ presence' = Called("detect_managed_devices", "None")
                       /\ UNCHANGED <<is_connected, device_host, device_port>>
    /\ UNCHANGED <<convVars, driverVars, wsVars, now>>

\* detect_managed_devices, with _discover
detect_managed_devices ==
    /\ IF is_connected
           THEN /\ presence' = Called("detect_managed_devices", "self")
                /\ UNCHANGED <<is_connected, device_host, device_port, last_discovery,
                               discoveries>>
       ELSE IF now - last_discovery < DiscoveryWindow
           \* _discover returns None, None
           THEN /\ presence' = Called("detect_managed_devices", "None")
                /\ UNCHANGED <<is_connected, device_host, device_port, last_discovery,
                               discoveries>>
       ELSE /\ last_discovery' = now
            /\ discoveries' = Append(discoveries, now)
            /\ \E d \in DiscoverDevice :
                  IF d.raised
                      THEN /\ presence' = Called("detect_managed_devices", "raised")
                           /\ UNCHANGED <<is_connected, device_host, device_port>>
                  ELSE IF d.host # "None" /\ d.port # 0
                      THEN /\ device_host' = d.host
                           /\ device_port' = d.port
                           /\ is_connected' = TRUE
                           /\ presence' = Called("detect_managed_devices", "self")
                  ELSE /\ presence' = Called("detect_managed_devices", "None")
                       /\ UNCHANGED <<is_connected, device_host, device_port>>
    /\ UNCHANGED <<convVars, driverVars, wsVars, now>>

\* CrossPointDevice.open
open ==
    /\ presence' = Called("open", IF ~is_connected THEN "ControlError" ELSE "True")
    /\ UNCHANGED <<convVars, driverVars, wsVars, is_connected, device_host, device_port,
                   last_discovery, now, discoveries>>

\* CrossPointDevice.eject
eject ==
    /\ is_connected' = FALSE
    /\ presence' = Called("eject", "None")
    /\ UNCHANGED <<convVars, driverVars, wsVars, device_host, device_port, last_discovery,
                   now, discoveries>>

\* CrossPointDevice.stop_plugin
stop_plugin ==
    /\ is_connected' = FALSE
    /\ presence' = Called("stop_plugin", "None")
    /\ UNCHANGED <<convVars, driverVars, wsVars, device_host, device_port, last_discovery,
                   now, discoveries>>

\* a second passes
Tick ==
    /\ now < MaxTime
    /\ now' = now + 1
    /\ UNCHANGED <<convVars, driverVars, wsVars, is_connected, device_host, device_port,
                   last_discovery, discoveries, presence>>

NextPresence == detect_managed_devices \/ open \/ eject \/ stop_plugin \/ Tick

SpecPresence == InitPresence /\ [][NextPresence]_vars

\* C38: is_connected turns true only in a detect_managed_devices call whose
\* discovery returned a host, and false only in eject or stop_plugin; open
\* raises ControlError exactly when is_connected is false; a connected
\* device answers detect_managed_devices with itself and no discovery; two
\* discoveries are at least 2 seconds apart.
C38_Presence ==
    [][/\ (~is_connected /\ is_connected') =>
             /\ presence' = Called("detect_managed_devices", "self")
             /\ discoveries' = Append(discoveries, now)
             /\ device_host' # "None"
       /\ (is_connected /\ ~is_connected') => presence'.call \in {"eject", "stop_plugin"}
       /\ (presence' # presence /\ presence'.call = "open") =>
             /\ ~is_connected <=> presence'.result = "ControlError"
             /\ is_connected <=> presence'.result = "True"
       /\ (presence' # presence /\ presence'.call = "detect_managed_devices"
                /\ is_connected) =>
             /\ presence'.result = "self"
             /\ discoveries' = discoveries
       /\ discoveries' # discoveries =>
             /\ discoveries' = Append(discoveries, now)
             /\ discoveries # <<>> =>
                   now - discoveries[Len(discoveries)] >= DiscoveryWindow]_vars

\* the device was found, ejected, and found again by a second discovery two
\* seconds after the first
C38_Witness ==
    /\ Len(discoveries) = 2
    /\ is_connected
    /\ presence = Called("detect_managed_devices", "self")
    /\ discoveries[2] - discoveries[1] = DiscoveryWindow

====
